---------------------------- MODULE Spec2Model ----------------------------
(***************************************************************************)
(* Discrete-event air-traffic simulator (prototipos 1 and 2).              *)
(*                                                                         *)
(* Prototipo 2 (simulador_prototipo2.py) is modelled as the SimPy event    *)
(* loop it runs on: a queue of scheduled events ordered by (time,          *)
(* priority, insertion), one action per stretch of a process between two   *)
(* yields.  Virtual time is kept in hundredths of a minute, distances in   *)
(* hundredths of a km and speeds in hundredths of a km/h, so that the      *)
(* float arithmetic of the phases is integer arithmetic here (results are  *)
(* truncated to 0.01 min).  Every random draw of the code is a             *)
(* nondeterministic choice over the end points of its range.  Fuel and     *)
(* the per-phase log are not modelled: they never influence control flow.  *)
(*                                                                         *)
(* Prototipo 1's airport (AeropuertoBase, comun/modelos.py) is modelled by *)
(* its three public operations, called in any order.                       *)
(***************************************************************************)
EXTENDS Integers, Sequences, FiniteSets, TLC

VARIABLES
    esc,            \* the input scenario (tables, graph, plan, config)
    dia,            \* the day of the loop of ejecutar_simulacion.main
    ayer,           \* the event log returned by the engine of the day before
    semillas,       \* history: config.seed of the engine built for each day
    now,            \* env.now, in 0.01 min
    cola,           \* the event queue of the simpy Environment
    vuelos,         \* locals of every _proceso_vuelo coroutine
    ruidos,         \* locals of every _proceso_ruido_exterior coroutine
    usuarios,       \* Resource.users per airport (set of flights)
    colaRec,        \* Resource.queue (put_queue) per airport
    ocupacion,      \* self._ocupacion
    eventos,        \* self._eventos
    registros,      \* self._registros
    pista,          \* self._ultimo_evento_pista
    sepRuta,        \* self._separacion_ruta
    vientos,        \* self._vientos_cache
    usosPista,      \* history: completed runway waits (airport, time, flight)
    pedidos,        \* history: order of request() calls per airport
    concedidos,     \* history: order of grants per airport
    disp,           \* AeropuertoBase.capacidad_disponible      (prototipo 1)
    colaAt,         \* AeropuertoBase._cola_aterrizajes         (prototipo 1)
    atendidos,      \* history: flights granted a landing slot  (prototipo 1)
    flujo,          \* what random.Random(seed) gives, draw after draw
    consumidos,     \* draws taken from self.rng, per run of the same seed
    cacheDe,        \* self._vientos_cache, per run of the same seed
    sim,            \* the SimulacionPrototipo1 object: entorno (now, cola),
                    \* flight processes, airports, registros_finalizados
    gen,            \* a call of generar_plan_diario: arguments, locals, result
    pes             \* a call of _anadir_pesos: arguments, locals, the graph

vars == <<esc, dia, ayer, semillas, now, cola, vuelos, ruidos, usuarios, colaRec, ocupacion,
          eventos, registros, pista, sepRuta, vientos, usosPista, pedidos,
          concedidos, disp, colaAt, atendidos, flujo, consumidos, cacheDe, sim, gen, pes>>

varsP1 == <<disp, colaAt, atendidos>>

varsDia == <<dia, ayer, semillas>>

varsRng == <<flujo, consumidos, cacheDe>>

varsP2 == <<now, cola, vuelos, ruidos, usuarios, colaRec, ocupacion,
            eventos, registros, pista, sepRuta, vientos, usosPista, pedidos,
            concedidos>>

varsMotor == <<esc, varsDia, varsP1, varsP2>>

-----------------------------------------------------------------------------
(* Bounds of the model *)

\* number of flights of the bottleneck scenario (departures at 0, 1, 2, ...)
NumVuelos == 3

\* number of solicitar_aterrizaje calls explored on the prototipo 1 airport
MaxSolicitudes == 4

\* the noise processes of an empty plan have no horizon and run for ever:
\* their clock and their events are followed up to this minute of simulated
\* time, after which the pulses go on unrecorded
MaxMinutos == 600

-----------------------------------------------------------------------------
(* Units and small helpers *)

Max(a, b) == IF a >= b THEN a ELSE b
Min(a, b) == IF a <= b THEN a ELSE b

\* minutes -> hundredths of a minute
Cm(m) == m * 100

\* "never": the -1e9 default of the two separation dictionaries
NUNCA == -1000000000

EXTERIOR == "EXTERIOR"

Aer == {"A", "B", "C", "D"}

Nodos == Aer \cup {EXTERIOR}

\* Sea(x, F): F applied to the value of x, which is computed once
Sea(x, F(_)) == CHOOSE r \in {F(v) : v \in {x}} : TRUE

\* Python's round() of the fraction num/den (den > 0, num >= 0): half to even
Round(num, den) ==
    LET q == num \div den
        r == num % den
    IN  IF 2 * r < den THEN q
        ELSE IF 2 * r > den THEN q + 1
        ELSE IF q % 2 = 0 THEN q ELSE q + 1


-----------------------------------------------------------------------------
(* ConfigSimulacion defaults and the reference tables *)

T_umbral_espera == 45
separar_minutos == 3
exterior_top_n == 15
seed == 1234
exterior_ruido_min == 1
exterior_ruido_max == 3
exterior_intervalo_min == 90
exterior_intervalo_max == 240
exterior_estancia_min == 15
exterior_estancia_max == 45
umbral_distancia_tipo_avion == 700

\* ocupacion_inicial_{min,max}_fraccion, in percent
ocupacion_inicial_min_fraccion == 5
ocupacion_inicial_max_fraccion == 35

\* minimum phase durations (min) and the distance split
tmin_fase_rodaje_min == 3
tmin_fase_despegue_min == 2
tmin_fase_crucero_min == 5
tmin_fase_aproximacion_min == 4
tmin_fase_aterrizaje_min == 2
dist_rodaje_km == 4
frac_dist_despegue == 8
frac_dist_aproximacion == 10
frac_dist_aterrizaje == 5
dist_min_aterrizaje_km == 5

\* cruise speed of TIPO_MEDIO_RADIO, used by the diversion planner
vel_cru_medio_kmh == 900

\* ConfigVuelos.velocidad_crucero_kmh, the speed behind duracion_minutos
velocidad_crucero_kmh == 800

\* speed factor per wind label, in percent
FactorViento(etiqueta) ==
    IF etiqueta = "a_favor" THEN 105
    ELSE IF etiqueta = "en_contra" THEN 90
    ELSE 100

Etiquetas == {"a_favor", "en_contra", "neutro"}

\* VELOCIDADES_REFERENCIA: the two ends of rng.uniform(v_min, v_max), km/h
VELOCIDADES_REFERENCIA(clave) ==
    CASE clave = "rodaje"        -> {35, 60}
      [] clave = "despegue"      -> {250, 300}
      [] clave = "crucero_corto" -> {820, 880}
      [] clave = "crucero_medio" -> {880, 940}
      [] clave = "aproximacion"  -> {380}
      [] clave = "aterrizaje"    -> {240, 250}

SeleccionarTipoAeronave(dist_km) ==
    IF dist_km <= umbral_distancia_tipo_avion THEN "corto_radio" ELSE "medio_radio"

\* the speeds _velocidad_objetivo can return for a phase
VelocidadObjetivo(fase, tipo) ==
    IF fase = "crucero"
    THEN VELOCIDADES_REFERENCIA(IF tipo = "corto_radio" THEN "crucero_corto"
                                                         ELSE "crucero_medio")
    ELSE VELOCIDADES_REFERENCIA(fase)

\* (dist / vel) * 60 with dist in 0.01 km and vel in 0.01 km/h; result 0.01 min
TiempoFase(dist_ckm, vel_c) ==
    IF vel_c <= 0 THEN 0 ELSE (dist_ckm * 6000) \div vel_c

\* takeoff, cruise, approach and landing stretches of dist_km (a whole number
\* of km), each in 0.01 km
SegmentosDistancia(dist_km) ==
    LET desp  == Max(100, dist_km * frac_dist_despegue)
        aprox == Max(100, dist_km * frac_dist_aproximacion)
        aterr == Max(dist_min_aterrizaje_km * 100, dist_km * frac_dist_aterrizaje)
        base  == desp + aprox + aterr
        resto == dist_km * 100 - base
    IN  IF resto < 0
        THEN [despegue |-> (desp * dist_km * 100) \div base,
              crucero |-> 0,
              aprox |-> (aprox * dist_km * 100) \div base,
              aterr |-> (aterr * dist_km * 100) \div base]
        ELSE [despegue |-> desp, crucero |-> resto, aprox |-> aprox, aterr |-> aterr]

\* _duracion_minutos of the plan generator: ceil(dist / vel * 60), at least 1
DuracionMinutos(dist_km, vel_kmh) ==
    IF vel_kmh <= 0 THEN 0
    ELSE Max(1, (dist_km * 60 + vel_kmh - 1) \div vel_kmh)

-----------------------------------------------------------------------------
(* Input scenarios: airport table, graph, plan and configuration *)

\* the phases with a speed draw
TodasLasFases == {"rodaje", "despegue", "crucero", "aproximacion", "aterrizaje"}

Fila(id, o, d, salida, km) ==
    [id_vuelo |-> id, origen |-> o, destino |-> d, es_exterior |-> (d = EXTERIOR),
     minuto_salida |-> salida,
     minuto_llegada_programada |-> salida + DuracionMinutos(km, velocidad_crucero_kmh),
     distancia_km |-> km,
     duracion_minutos |-> DuracionMinutos(km, velocidad_crucero_kmh)]

\* a row of a plan generated with another velocidad_crucero_kmh
FilaVel(id, o, d, salida, km, vel) ==
    [Fila(id, o, d, salida, km) EXCEPT
        !.minuto_llegada_programada = salida + DuracionMinutos(km, vel),
        !.duracion_minutos = DuracionMinutos(km, vel)]

Arista(u, v, km, pax) == [u |-> u, v |-> v, dist_km |-> km, pasajeros_anuales |-> pax]

SinOverride == [a \in {} |-> 0]

\* spec scenario 2: capacity-1 bottleneck, flights A->B at minutes 0, 1, 2, ...
EscCuello ==
    [prototipo |-> 2,
     tabla |-> <<"A", "B">>,
     cap |-> [a \in Aer |-> IF a = "A" THEN 5 ELSE 1],
     viento_baja |-> [a \in Aer |-> IF a = "A" THEN "a_favor" ELSE "en_contra"],
     viento_alta |-> [a \in Aer |-> "en_contra"],
     nodos |-> <<"A", "B">>,
     aristas |-> {Arista("A", "B", 100, 1000)},
     plan |-> [i \in 1..NumVuelos |-> Fila(i, "A", "B", i - 1, 100)],
     T_umbral_espera |-> T_umbral_espera,
     override |-> SinOverride,
     top_n |-> 1,
     sorteos |-> TodasLasFases,
     dias |-> 1,
     intervalo |-> {exterior_intervalo_min},
     ruido |-> {exterior_ruido_min, exterior_ruido_max},
     estancia |-> {exterior_estancia_min, exterior_estancia_max}]

\* a capacity-1 origin: three flights scheduled at the same minute queue for
\* its only slot
EscCola ==
    [prototipo |-> 2,
     tabla |-> <<"A", "B">>,
     cap |-> [a \in Aer |-> IF a = "A" THEN 1 ELSE 5],
     viento_baja |-> [a \in Aer |-> IF a = "A" THEN "a_favor" ELSE "en_contra"],
     viento_alta |-> [a \in Aer |-> "en_contra"],
     nodos |-> <<"A", "B">>,
     aristas |-> {Arista("A", "B", 100, 1000)},
     plan |-> <<Fila(1, "A", "B", 0, 100), Fila(2, "A", "B", 0, 100),
                Fila(3, "A", "B", 0, 100)>>,
     T_umbral_espera |-> T_umbral_espera,
     override |-> SinOverride,
     top_n |-> 1,
     sorteos |-> TodasLasFases,
     dias |-> 1,
     intervalo |-> {exterior_intervalo_max},
     ruido |-> {exterior_ruido_min},
     estancia |-> {exterior_estancia_min}]

\* a full destination and a later departure from it: diversion to C
EscDesvio ==
    [prototipo |-> 2,
     tabla |-> <<"A", "B", "C">>,
     cap |-> [a \in Aer |-> IF a = "A" THEN 3 ELSE IF a = "B" THEN 1 ELSE 2],
     viento_baja |-> [a \in Aer |-> IF a = "A" THEN "a_favor" ELSE "en_contra"],
     viento_alta |-> [a \in Aer |-> "en_contra"],
     nodos |-> <<"A", "B", "C">>,
     aristas |-> {Arista("A", "B", 100, 1000), Arista("A", "C", 110, 200),
                  Arista("B", "C", 60, 100)},
     plan |-> <<Fila(1, "A", "B", 0, 100), Fila(2, "A", "B", 5, 100),
                Fila(3, "B", "A", 60, 100)>>,
     T_umbral_espera |-> 5,
     override |-> [a \in Aer |-> IF a = "A" THEN 1 ELSE IF a = "B" THEN 0 ELSE 5],
     top_n |-> 1,
     sorteos |-> TodasLasFases,
     dias |-> 1,
     intervalo |-> {exterior_intervalo_min},
     ruido |-> {exterior_ruido_min, exterior_ruido_max},
     estancia |-> {exterior_estancia_min, exterior_estancia_max}]

\* the same, with the only alternative C at 140 km of A: beyond 1.3 x 100 km
EscLejos ==
    [EscDesvio EXCEPT !.aristas = {Arista("A", "B", 100, 1000), Arista("A", "C", 140, 200),
                                   Arista("B", "C", 60, 100)}]

\* two alternatives for a full B: D at 60 km of it and C at 80 km; a flight
\* leaving D holds its only slot around the time the second flight decides
EscCuatro ==
    [prototipo |-> 2,
     tabla |-> <<"A", "B", "C", "D">>,
     cap |-> [a \in Aer |-> IF a = "A" THEN 3 ELSE IF a = "C" THEN 2 ELSE 1],
     viento_baja |-> [a \in Aer |-> IF a = "A" THEN "a_favor" ELSE "en_contra"],
     viento_alta |-> [a \in Aer |-> "en_contra"],
     nodos |-> <<"A", "B", "C", "D">>,
     aristas |-> {Arista("A", "B", 100, 1000), Arista("A", "C", 110, 200),
                  Arista("A", "D", 120, 100), Arista("B", "C", 80, 100),
                  Arista("B", "D", 60, 100)},
     plan |-> <<Fila(1, "A", "B", 0, 100), Fila(2, "A", "B", 5, 100),
                Fila(3, "B", "A", 60, 100), Fila(4, "D", "A", 13, 120)>>,
     T_umbral_espera |-> 5,
     override |-> [a \in Aer |-> IF a = "A" THEN 1 ELSE 0],
     top_n |-> 1,
     sorteos |-> {"rodaje", "crucero"},
     dias |-> 1,
     intervalo |-> {exterior_intervalo_max},
     ruido |-> {exterior_ruido_min},
     estancia |-> {exterior_estancia_min}]

\* spec scenario 3: B of capacity 1, C at 600 km of A (within 1.3 x 500 km),
\* three flights A->B of 500 km at minutes 0, 1 and 2, threshold 5 min
EscTres ==
    [prototipo |-> 2,
     tabla |-> <<"A", "B", "C">>,
     cap |-> [a \in Aer |-> IF a = "B" THEN 1 ELSE 5],
     viento_baja |-> [a \in Aer |-> IF a = "A" THEN "a_favor" ELSE "en_contra"],
     viento_alta |-> [a \in Aer |-> "en_contra"],
     nodos |-> <<"A", "B", "C">>,
     aristas |-> {Arista("A", "B", 500, 1000), Arista("A", "C", 600, 200),
                  Arista("B", "C", 150, 100)},
     plan |-> <<Fila(1, "A", "B", 0, 500), Fila(2, "A", "B", 1, 500),
                Fila(3, "A", "B", 2, 500)>>,
     T_umbral_espera |-> 5,
     override |-> [a \in Aer |-> 0],
     top_n |-> 1,
     sorteos |-> {"rodaje", "crucero"},
     dias |-> 1,
     intervalo |-> {exterior_intervalo_max},
     ruido |-> {exterior_ruido_min},
     estancia |-> {exterior_estancia_min}]

\* an empty plan that keeps its columns: one airport, its noise process and
\* nothing else
EscVacio ==
    [prototipo |-> 2,
     tabla |-> <<"A">>,
     cap |-> [a \in Aer |-> 2],
     viento_baja |-> [a \in Aer |-> "neutro"],
     viento_alta |-> [a \in Aer |-> "neutro"],
     nodos |-> <<"A">>,
     aristas |-> {},
     plan |-> <<>>,
     T_umbral_espera |-> T_umbral_espera,
     override |-> SinOverride,
     top_n |-> 1,
     sorteos |-> TodasLasFases,
     dias |-> 1,
     intervalo |-> {exterior_intervalo_min, exterior_intervalo_max},
     ruido |-> {exterior_ruido_min, exterior_ruido_max},
     estancia |-> {exterior_estancia_min}]

\* two days of the loop of ejecutar_simulacion: the base plan, one flight
\* A->B at minute 0, is shifted by 1440 minutes per day; C has no flight and no
\* noise process
EscDias ==
    [prototipo |-> 2,
     tabla |-> <<"A", "B", "C">>,
     cap |-> [a \in Aer |-> IF a = "B" THEN 1 ELSE 2],
     viento_baja |-> [a \in Aer |-> IF a = "A" THEN "a_favor" ELSE "en_contra"],
     viento_alta |-> [a \in Aer |-> "en_contra"],
     nodos |-> <<"A", "B", "C">>,
     aristas |-> {Arista("A", "B", 100, 1000), Arista("B", "C", 60, 100)},
     plan |-> <<Fila(1, "A", "B", 0, 100)>>,
     T_umbral_espera |-> T_umbral_espera,
     override |-> SinOverride,
     top_n |-> 1,
     sorteos |-> TodasLasFases,
     dias |-> 2,
     intervalo |-> {exterior_intervalo_max},
     ruido |-> {exterior_ruido_min},
     estancia |-> {exterior_estancia_min}]

\* spec scenario 4: one exterior flight from an airport of capacity 2, winds
\* drawn by the oracle, one noise pulse inside the horizon; the plan was
\* generated with a reference cruise speed of 700 km/h
EscExterior ==
    [prototipo |-> 2,
     tabla |-> <<"A">>,
     cap |-> [a \in Aer |-> 2],
     viento_baja |-> [a \in Aer |-> "neutro"],
     viento_alta |-> [a \in Aer |-> "neutro"],
     nodos |-> <<"A">>,
     aristas |-> {},
     plan |-> <<FilaVel(1, "A", EXTERIOR, 0, 1800, 700)>>,
     T_umbral_espera |-> T_umbral_espera,
     override |-> SinOverride,
     top_n |-> 1,
     sorteos |-> TodasLasFases,
     dias |-> 1,
     intervalo |-> {exterior_intervalo_min, exterior_intervalo_max},
     ruido |-> {exterior_ruido_min, exterior_ruido_max},
     estancia |-> {exterior_estancia_min}]

\* a flight B->A that taxis and lands while noise pulses come and go at A
EscRuido ==
    [prototipo |-> 2,
     tabla |-> <<"A", "B">>,
     cap |-> [a \in Aer |-> IF a = "A" THEN 2 ELSE 1],
     viento_baja |-> [a \in Aer |-> IF a = "A" THEN "neutro" ELSE "en_contra"],
     viento_alta |-> [a \in Aer |-> "a_favor"],
     nodos |-> <<"A", "B">>,
     aristas |-> {Arista("A", "B", 100, 1000)},
     plan |-> <<Fila(1, "B", "A", 95, 100)>>,
     T_umbral_espera |-> T_umbral_espera,
     override |-> SinOverride,
     top_n |-> 1,
     sorteos |-> TodasLasFases,
     dias |-> 1,
     intervalo |-> {exterior_intervalo_min, exterior_intervalo_max},
     ruido |-> {exterior_ruido_min, exterior_ruido_max},
     estancia |-> {exterior_estancia_min, exterior_estancia_max}]

\* prototipo 1: one AeropuertoBase of capacity 2
EscP1 ==
    [prototipo |-> 1,
     tabla |-> <<"A">>,
     cap |-> [a \in Aer |-> 2],
     viento_baja |-> [a \in Aer |-> "neutro"],
     viento_alta |-> [a \in Aer |-> "neutro"],
     nodos |-> <<"A">>,
     aristas |-> {},
     plan |-> <<>>,
     T_umbral_espera |-> T_umbral_espera,
     override |-> SinOverride,
     top_n |-> 1,
     sorteos |-> TodasLasFases,
     dias |-> 1,
     intervalo |-> {exterior_intervalo_min},
     ruido |-> {exterior_ruido_min},
     estancia |-> {exterior_estancia_min}]

\* a plan whose only flight is scheduled before minute 0, the time at which
\* run() starts every flight process
EscPasado ==
    [EscDias EXCEPT !.plan = <<Fila(1, "A", "B", -5, 100)>>,
                    !.sorteos = {"rodaje", "crucero"},
                    !.dias = 1]

\* a plan whose only row has its scheduled arrival at its departure minute
EscInvalido ==
    [EscPasado EXCEPT !.plan = <<[Fila(1, "A", "B", 0, 100)
                                     EXCEPT !.minuto_llegada_programada = 0]>>]

\* every airport has as many slots as the plan has flights
EscAmplio ==
    [EscCuello EXCEPT !.tabla = <<"A", "B", "C">>,
                      !.nodos = <<"A", "B", "C">>,
                      !.aristas = {Arista("A", "B", 100, 1000), Arista("B", "C", 100, 100)},
                      !.cap = [a \in Aer |-> 2],
                      !.plan = <<Fila(1, "A", "B", 0, 100), Fila(2, "C", "B", 0, 100)>>,
                      !.sorteos = {"rodaje", "aterrizaje"}]

Escenarios ==
    <<EscCuello, EscDesvio, EscExterior, EscRuido, EscP1, EscCola, EscLejos, EscCuatro,
      EscTres, EscVacio, EscDias, EscPasado, EscAmplio, EscInvalido>>

E == esc

\* plan_dia of ejecutar_simulacion (lines 151-155): the base plan with its
\* departure and arrival minutes shifted by (dia - 1) * 1440
Plan ==
    IF dia = 1 THEN E.plan
    ELSE [i \in 1..Len(E.plan) |->
             [E.plan[i] EXCEPT
                 !.minuto_salida = @ + (dia - 1) * 1440,
                 !.minuto_llegada_programada = @ + (dia - 1) * 1440]]

Vuelos == 1..Len(Plan)

RangoSeq(s) == {s[i] : i \in 1..Len(s)}

\* airports that own a Resource (_crear_recursos_aeropuertos)
ConRecurso == RangoSeq(E.tabla)

\* Resource.capacity
\* a Resource of one slot whatever the table says
Capacidad_unica(a) == 1

Capacidad(a) == Max(1, E.cap[a])


-----------------------------------------------------------------------------
(* Engine construction: traffic, initial occupancy, noise processes *)

RECURSIVE SumaPax(_)
SumaPax(ars) ==
    IF ars = {} THEN 0
    ELSE Sea(CHOOSE y \in ars : TRUE,
             LAMBDA x : x.pasajeros_anuales + SumaPax(ars \ {x}))

Incidentes(n) ==
    {x \in E.aristas : (x.u = n \/ x.v = n) /\ x.u # EXTERIOR /\ x.v # EXTERIOR}

NodosInternos == SelectSeq(E.nodos, LAMBDA n : n # EXTERIOR)

\* _calcular_trafico_por_aeropuerto: passengers on the edges of a node; the
\* degree when no edge carries weight.  The final normalisation of the code
\* rescales every entry by the same factor and is left out.
Trafico(n) ==
    IF \A m \in RangoSeq(NodosInternos) : SumaPax(Incidentes(m)) = 0
    THEN Cardinality({x \in E.aristas : x.u = n \/ x.v = n})
    ELSE SumaPax(Incidentes(n))

RECURSIVE SumaTrafico(_)
SumaTrafico(ns) ==
    IF ns = <<>> THEN 0 ELSE Trafico(Head(ns)) + SumaTrafico(Tail(ns))

\* _inicializar_ocupacion: the occupancies one airport can start with
OcupacionInicialCon(override, a) ==
    LET c == Capacidad(a)
        total == IF SumaTrafico(NodosInternos) = 0 THEN 1 ELSE SumaTrafico(NodosInternos)
        traf == IF a \in RangoSeq(NodosInternos) THEN Trafico(a) ELSE 0
        Ocup(base) == Round(c * Min(200 * total, 2 * base * total + 100 * traf),
                            200 * total)
    IN  IF a \in DOMAIN override
        THEN {Max(0, Min(override[a], c))}
        ELSE {Max(0, Min(Ocup(base), c)) :
                 base \in {ocupacion_inicial_min_fraccion, ocupacion_inicial_max_fraccion}}

OcupacionInicial(a) == OcupacionInicialCon(E.override, a)

\* the "ocupacion_inicial" events, in the order of the airport table
RECURSIVE EventosIniciales(_, _)
EventosIniciales(tabla, ocup) ==
    IF tabla = <<>> THEN <<>>
    ELSE LET a == Head(tabla)
         IN  (IF ocup[a] > 0
              THEN <<[minuto |-> 0, aeropuerto |-> a, evento |-> "ocupacion_inicial",
                      ocupacion |-> ocup[a], capacidad |-> Capacidad(a)]>>
              ELSE <<>>) \o EventosIniciales(Tail(tabla), ocup)

\* sorted(..., key=traffic, reverse=True): stable, by decreasing traffic
RECURSIVE OrdenarPorTrafico(_)
OrdenarPorTrafico(ns) ==
    IF ns = <<>> THEN <<>>
    ELSE Sea(CHOOSE j \in 1..Len(ns) :
                     /\ \A k \in 1..Len(ns) : Trafico(ns[k]) <= Trafico(ns[j])
                     /\ \A k \in 1..(j - 1) : Trafico(ns[k]) < Trafico(ns[j]),
             LAMBDA i : <<ns[i]>> \o OrdenarPorTrafico(SubSeq(ns, 1, i - 1)
                                                        \o SubSeq(ns, i + 1, Len(ns))))

\* _programar_ruido_exterior: the airports that get a noise process
TopIds ==
    LET orden == OrdenarPorTrafico(NodosInternos)
    IN  SubSeq(orden, 1, Min(Len(orden), Max(1, E.top_n)))

RECURSIVE MaxLlegada(_)
MaxLlegada(plan) ==
    IF Len(plan) = 1 THEN plan[1].minuto_llegada_programada
    ELSE Max(plan[1].minuto_llegada_programada, MaxLlegada(Tail(plan)))

\* now >= self._horizonte_min; the maximum of an empty column is NaN, and no
\* number is >= NaN
PasadoHorizonte(t) ==
    /\ Plan # <<>>
    /\ t >= Cm(MaxLlegada(Plan) + 60)

-----------------------------------------------------------------------------
(* The event queue of the Environment *)

URGENT == 0
NORMAL == 1

Evento(t, prio, tipo, v, a) == [t |-> t, prio |-> prio, tipo |-> tipo, v |-> v, a |-> a]

\* heappush with key (time, priority, insertion count)
Programar(s0, ev0) ==
    Sea(s0, LAMBDA s : Sea(ev0, LAMBDA ev :
        LET q == s.cola
            k == Cardinality({i \in 1..Len(q) :
                     q[i].t < ev.t \/ (q[i].t = ev.t /\ q[i].prio <= ev.prio)})
        IN  [s EXCEPT !.cola = SubSeq(q, 1, k) \o <<ev>> \o SubSeq(q, k + 1, Len(q))]))

\* env.timeout(delay), awaited by flight f
TimeoutVuelo(s0, delay, f) ==
    Sea(s0, LAMBDA s : Programar(s, Evento(s.now + delay, NORMAL, "timeout", f, "")))

\* env.timeout(delay), awaited by the noise process of airport a
TimeoutRuido(s0, delay, a) ==
    Sea(s0, LAMBDA s :
        Programar(s, Evento(IF E.plan = <<>> THEN Min(s.now + delay, Cm(MaxMinutos))
                                             ELSE s.now + delay,
                            NORMAL, "timeout", 0, a)))

\* env.process(...): the Initialize events, noise processes first, then the
\* flights in plan order
RECURSIVE ColaInicial(_, _)
ColaInicial(top, n) ==
    IF top # <<>>
    THEN <<Evento(0, URGENT, "init", 0, Head(top))>> \o ColaInicial(Tail(top), n)
    ELSE [i \in 1..n |-> Evento(0, URGENT, "init", i, "")]

-----------------------------------------------------------------------------
(* Occupancy log *)

\* _log_evento without the full-capacity test and without the clamp
LogEvento_sinTope(s0, a, evento, delta) ==
    Sea(s0, LAMBDA s :
        IF a \notin DOMAIN s.ocupacion THEN s
        ELSE [s EXCEPT !.ocupacion[a] = @ + delta,
                       !.eventos = Append(@, [minuto |-> s.now, aeropuerto |-> a,
                                              evento |-> evento,
                                              ocupacion |-> s.ocupacion[a] + delta,
                                              capacidad |-> Capacidad(a)])])

\* a log that holds the occupancy at the capacity but keeps the event name
LogEvento_sinSufijo(s0, a, evento, delta) ==
    Sea(s0, LAMBDA s :
        IF a \notin DOMAIN s.ocupacion THEN s
        ELSE LET c == Capacidad(a)
                 nueva == Max(0, Min(c, s.ocupacion[a] + delta))
             IN  [s EXCEPT !.ocupacion[a] = nueva,
                           !.eventos = Append(@, [minuto |-> s.now, aeropuerto |-> a,
                                                  evento |-> evento, ocupacion |-> nueva,
                                                  capacidad |-> c])])

\* _log_evento
LogEvento(s0, a, evento, delta) ==
    Sea(s0, LAMBDA s :
        IF a \notin DOMAIN s.ocupacion THEN s
        ELSE LET prev == s.ocupacion[a]
                 c == Capacidad(a)
                 llena == delta > 0 /\ prev >= c
                 aplicado == IF llena THEN 0 ELSE delta
                 nombre == IF llena THEN evento \o "_cap_llena" ELSE evento
                 nueva == Max(0, Min(c, prev + aplicado))
             IN  [s EXCEPT !.ocupacion[a] = nueva,
                           !.eventos = Append(@, [minuto |-> s.now, aeropuerto |-> a,
                                                  evento |-> nombre, ocupacion |-> nueva,
                                                  capacidad |-> c])])

RECURSIVE LogEventoN(_, _, _, _, _)
LogEventoN(s, a, evento, delta, n) ==
    IF n = 0 THEN s ELSE LogEventoN(LogEvento(s, a, evento, delta), a, evento, delta, n - 1)

-----------------------------------------------------------------------------
(* simpy.Resource *)

\* a resource that serves the newest request first
TriggerPut_ultimo(s0, a) ==
    Sea(s0, LAMBDA s :
        IF s.colaRec[a] # <<>> /\ Cardinality(s.usuarios[a]) < Capacidad(a)
        THEN LET n == Len(s.colaRec[a])
                 f == s.colaRec[a][n]
             IN  Programar([s EXCEPT !.usuarios[a] = @ \cup {f},
                                     !.colaRec[a] = SubSeq(@, 1, n - 1),
                                     !.concedidos[a] = Append(@, f)],
                           Evento(s.now, NORMAL, "grant", f, a))
        ELSE s)

\* a resource that grants by the logged occupancy instead of its users
TriggerPut_segunRegistro(s0, a) ==
    Sea(s0, LAMBDA s :
        IF s.colaRec[a] # <<>> /\ s.ocupacion[a] < Capacidad(a)
        THEN LET f == Head(s.colaRec[a])
             IN  Programar([s EXCEPT !.usuarios[a] = @ \cup {f},
                                     !.colaRec[a] = Tail(@),
                                     !.concedidos[a] = Append(@, f)],
                           Evento(s.now, NORMAL, "grant", f, a))
        ELSE s)

\* BaseResource._trigger_put with Resource._do_put: the head of the queue is
\* granted when a slot is free; its event is scheduled at the current time
TriggerPut(s0, a) ==
    Sea(s0, LAMBDA s :
        IF s.colaRec[a] # <<>> /\ Cardinality(s.usuarios[a]) < Capacidad(a)
        THEN LET f == Head(s.colaRec[a])
             IN  Programar([s EXCEPT !.usuarios[a] = @ \cup {f},
                                     !.colaRec[a] = Tail(@),
                                     !.concedidos[a] = Append(@, f)],
                           Evento(s.now, NORMAL, "grant", f, a))
        ELSE s)

\* resource.request()
Request(s, a, f) ==
    TriggerPut([s EXCEPT !.colaRec[a] = Append(@, f),
                         !.pedidos[a] = Append(@, f)], a)

\* a release that frees the slot but never wakes the queue
Release_sinEvento(s0, a, f) == [s0 EXCEPT !.usuarios[a] = @ \ {f}]

\* leaving the "with" block: resource.release(req); the queue is served when
\* the Release event is processed
Release(s0, a, f) ==
    Sea(s0, LAMBDA s :
        Programar([s EXCEPT !.usuarios[a] = @ \ {f}],
                  Evento(s.now, NORMAL, "release", 0, a)))


-----------------------------------------------------------------------------
(* Wind oracle *)

Fases == {"despegue", "crucero", "aproximacion", "aterrizaje"}

TablaViento(a, fase) == IF fase = "crucero" THEN E.viento_alta[a] ELSE E.viento_baja[a]

\* _resolver_viento: the label returned; sorteo is what rng.choices would give
EtiquetaViento(s, a, fase, sorteo) ==
    IF TablaViento(a, fase) \in {"", "neutro"}
    THEN Sea(s.vientos[<<a, fase>>], LAMBDA guardado :
             IF guardado = "" THEN sorteo ELSE guardado)
    ELSE TablaViento(a, fase)

\* _resolver_viento: the cache after the call
GuardarViento(s0, a, fase, sorteo) ==
    Sea(s0, LAMBDA s :
        IF TablaViento(a, fase) \in {"", "neutro"} /\ s.vientos[<<a, fase>>] = ""
        THEN [s EXCEPT !.vientos[<<a, fase>>] = sorteo]
        ELSE s)

\* max(tmin, _tiempo_fase(dist, vel * factor)) for a speed in km/h and a
\* factor in percent
DuracionFase(tmin, dist_ckm, vel_kmh, factor) ==
    Max(Cm(tmin), TiempoFase(dist_ckm, vel_kmh * factor))

-----------------------------------------------------------------------------
(* Separation *)

SepCm == Cm(separar_minutos)

\* _esperar_pista: the test "now < ultimo + min_sep"
DebeEsperarPista(s, a) == s.now < s.pista[a] + SepCm

\* _esperar_pista: the assignment that ends it
MarcarPista(s0, a, f) ==
    Sea(s0, LAMBDA s :
        [s EXCEPT !.pista[a] = s.now,
                  !.usosPista = Append(@, [aeropuerto |-> a, t |-> s.now, vuelo |-> f])])

\* tuple(sorted((origen, destino))) as an unordered pair
ClaveRuta(o, d) == {o, d}

DebeEsperarRuta(s, o, d) == s.now < s.sepRuta[ClaveRuta(o, d)] + SepCm

-----------------------------------------------------------------------------
(* Diversion *)

SIN_CAMINO == 1000000

Directa(u, v) ==
    IF u = v THEN 0
    ELSE LET ars == {x \in E.aristas : {x.u, x.v} = {u, v}}
         IN  IF ars = {} THEN SIN_CAMINO ELSE (CHOOSE x \in ars : TRUE).dist_km

\* nx.shortest_path_length(grafo, u, v, weight="dist_km"); SIN_CAMINO or more
\* stands for NetworkXNoPath
RECURSIVE CaminoMinimo(_, _, _)
CaminoMinimo(u, v, ks) ==
    IF ks = <<>> THEN Directa(u, v)
    ELSE Min(CaminoMinimo(u, v, Tail(ks)),
             CaminoMinimo(u, Head(ks), Tail(ks)) + CaminoMinimo(Head(ks), v, Tail(ks)))

DistGrafo(u, v) == CaminoMinimo(u, v, E.nodos)

\* an estimate that waits for the end of the day when the plan has no later
\* departure from the airport
TiempoEsperaSiguienteSalida_finDelDia(a, ahora) ==
    LET sal == {Cm(Plan[i].minuto_salida) : i \in
                   {j \in Vuelos : Plan[j].origen = a /\ Cm(Plan[j].minuto_salida) >= ahora}}
    IN  IF sal = {} THEN Max(0, Cm(1440) - ahora)
        ELSE Max(0, (CHOOSE x \in sal : \A y \in sal : x <= y) - ahora)

\* _tiempo_espera_siguiente_salida, in 0.01 min
TiempoEsperaSiguienteSalida(a, ahora) ==
    LET sal == {Cm(Plan[i].minuto_salida) : i \in
                   {j \in Vuelos : Plan[j].origen = a /\ Cm(Plan[j].minuto_salida) >= ahora}}
    IN  IF sal = {} THEN 0
        ELSE Max(0, (CHOOSE x \in sal : \A y \in sal : x <= y) - ahora)

\* an estimate that counts the next departure whatever the occupancy is
EsperaEstimada_sinCondicion(s, destino) ==
    (Len(s.colaRec[destino]) * SepCm) \div Max(1, Capacidad(destino))
        + TiempoEsperaSiguienteSalida(destino, s.now)

\* the estimate of _proceso_vuelo (lines 566-576), in 0.01 min
EsperaEstimada(s, destino) ==
    LET cola_actual == Len(s.colaRec[destino])
        capacidad_dest == Capacidad(destino)
        ocup_dest == Cardinality(s.usuarios[destino])
        espera_cola == (cola_actual * SepCm) \div Max(1, capacidad_dest)
        espera_por_salida == IF ocup_dest >= capacidad_dest
                             THEN TiempoEsperaSiguienteSalida(destino, s.now)
                             ELSE 0
    IN  espera_cola + espera_por_salida

\* a candidate loop without the test of free capacity
CandidatoOptimo_sinCapacidad(s, destino_original, origen_actual) ==
    LET ok(i) == /\ E.nodos[i] # destino_original
                 /\ E.nodos[i] # origen_actual
                 /\ E.nodos[i] \in ConRecurso
                 /\ DistGrafo(destino_original, E.nodos[i]) < SIN_CAMINO
        idx == {i \in 1..Len(E.nodos) : ok(i)}
        mejor == {i \in idx : \A j \in idx :
                     \/ DistGrafo(destino_original, E.nodos[i])
                            < DistGrafo(destino_original, E.nodos[j])
                     \/ /\ DistGrafo(destino_original, E.nodos[i])
                            = DistGrafo(destino_original, E.nodos[j])
                        /\ i <= j}
    IN  IF mejor = {} THEN "" ELSE E.nodos[CHOOSE i \in mejor : TRUE]

\* the candidate loop of _redirigir_si_conviene: the free airport nearest to
\* the original destination, the first of them in node order; "" when none
CandidatoOptimo(s, destino_original, origen_actual) ==
    LET ok(i) == /\ E.nodos[i] # destino_original
                 /\ E.nodos[i] # origen_actual
                 /\ E.nodos[i] \in ConRecurso
                 /\ Cardinality(s.usuarios[E.nodos[i]]) < Capacidad(E.nodos[i])
                 /\ DistGrafo(destino_original, E.nodos[i]) < SIN_CAMINO
        idx == {i \in 1..Len(E.nodos) : ok(i)}
        mejor == {i \in idx : \A j \in idx :
                     \/ DistGrafo(destino_original, E.nodos[i])
                            < DistGrafo(destino_original, E.nodos[j])
                     \/ /\ DistGrafo(destino_original, E.nodos[i])
                            = DistGrafo(destino_original, E.nodos[j])
                        /\ i <= j}
    IN  IF mejor = {} THEN "" ELSE E.nodos[CHOOSE i \in mejor : TRUE]

\* a planner that accepts any candidate that is faster than the wait
RedirigirSiConviene_sinAlcance(s, destino_original, tiempo_espera, origen_actual, dist_plan_km) ==
    Sea(CandidatoOptimo(s, destino_original, origen_actual), LAMBDA c :
    Sea(DistGrafo(origen_actual, c), LAMBDA dist_total :
        IF c # "" /\ dist_total < SIN_CAMINO
              /\ TiempoFase(dist_total * 100, vel_cru_medio_kmh * 100) < tiempo_espera
        THEN [destino |-> c, retraso |-> TiempoFase(dist_total * 100, vel_cru_medio_kmh * 100),
              redirigido |-> TRUE, dist |-> dist_total]
        ELSE [destino |-> destino_original, retraso |-> tiempo_espera,
              redirigido |-> FALSE, dist |-> dist_plan_km]))

\* _redirigir_si_conviene.  The graphs of the scenarios are connected; on a
\* graph where the candidate cannot be reached from the origin the code
\* fails on an unbound dist_total.
RedirigirSiConviene(s, destino_original, tiempo_espera, origen_actual, dist_plan_km) ==
    Sea(CandidatoOptimo(s, destino_original, origen_actual), LAMBDA c :
    Sea(DistGrafo(origen_actual, c), LAMBDA dist_total :
        LET tiempo_extra == IF dist_total * 10 > dist_plan_km * 13
                            THEN tiempo_espera + Cm(1)
                            ELSE TiempoFase(dist_total * 100, vel_cru_medio_kmh * 100)
            no == [destino |-> destino_original, retraso |-> tiempo_espera,
                   redirigido |-> FALSE, dist |-> dist_plan_km]
        IN  IF c = "" \/ dist_total >= SIN_CAMINO THEN no
            ELSE IF tiempo_extra < tiempo_espera
            THEN [destino |-> c, retraso |-> tiempo_extra, redirigido |-> TRUE,
                  dist |-> dist_total]
            ELSE no))


-----------------------------------------------------------------------------
(* _proceso_vuelo, one operator per stretch between two yields.  Each takes *)
(* the engine state s (a record of the prototipo 2 variables) and returns   *)
(* the state at the next yield.                                             *)

EsExterior(f) == Plan[f].es_exterior \/ Plan[f].destino = EXTERIOR

SinDecision ==
    [hecha |-> FALSE, cola |-> 0, ocup |-> 0, ahora |-> 0, espera |-> 0, libres |-> {}]

VueloNuevo(f) ==
    [pc |-> "nuevo", tipo |-> "", vel_cr |-> 0, destino_final |-> Plan[f].destino,
     redirigido |-> FALSE, dist_plan_km |-> Plan[f].distancia_km,
     retraso_por_redir |-> 0, espera_ini |-> 0, espera_cola |-> 0,
     dec |-> SinDecision]

\* lines 475-490: aircraft type, cruise speed draw, request of the origin slot
SolicitarOrigen(s, f, vel_cr) ==
    LET s1 == [s EXCEPT !.vuelos[f].tipo = SeleccionarTipoAeronave(Plan[f].distancia_km),
                        !.vuelos[f].vel_cr = vel_cr,
                        !.vuelos[f].pc = "req_origen"]
    IN  Request(s1, Plan[f].origen, f)

\* lines 463-473: wait for the scheduled departure when it lies ahead
IniciarVuelo(s, f, vel_cr) ==
    IF s.now < Cm(Plan[f].minuto_salida)
    THEN [TimeoutVuelo(s, Cm(Plan[f].minuto_salida) - s.now, f)
             EXCEPT !.vuelos[f].pc = "espera_salida"]
    ELSE SolicitarOrigen(s, f, vel_cr)

\* lines 491-499: origin slot granted; taxi
Rodar(s, f, vel_rodaje) ==
    LET s1 == LogEvento(s, Plan[f].origen, "ocupacion_origen", 1)
        t_rodaje == DuracionFase(tmin_fase_rodaje_min, dist_rodaje_km * 100, vel_rodaje, 100)
    IN  [TimeoutVuelo(s1, t_rodaje, f) EXCEPT !.vuelos[f].pc = "rodaje"]

\* lines 514-524, after the runway wait: takeoff phase
Despegar(s, f, sorteo, vel_despegue) ==
    LET o == Plan[f].origen
        s1 == MarcarPista(s, o, f)
        etiqueta == EtiquetaViento(s1, o, "despegue", sorteo)
        s2 == GuardarViento(s1, o, "despegue", sorteo)
        seg == SegmentosDistancia(Plan[f].distancia_km)
        t_despegue == DuracionFase(tmin_fase_despegue_min, seg.despegue, vel_despegue,
                                   FactorViento(etiqueta))
    IN  [TimeoutVuelo(s2, t_despegue, f) EXCEPT !.vuelos[f].pc = "despegue"]

\* line 514: _esperar_pista(origen) at the end of the taxi
FinRodaje(s, f, sorteo, vel_despegue) ==
    LET o == Plan[f].origen
    IN  IF DebeEsperarPista(s, o)
        THEN [TimeoutVuelo(s, (s.pista[o] + SepCm) - s.now, f)
                 EXCEPT !.vuelos[f].pc = "pista_origen"]
        ELSE Despegar(s, f, sorteo, vel_despegue)

\* an end of takeoff that logs the event and keeps the origin slot
FinDespegue_sinSoltar(s, f, sorteo) ==
    LET o == Plan[f].origen
        s1 == LogEvento(s, o, "despegue", -1)
        etiqueta == EtiquetaViento(s1, o, "crucero", sorteo)
        s3 == GuardarViento(s1, o, "crucero", sorteo)
        seg == SegmentosDistancia(Plan[f].distancia_km)
        vel_c == Max(100, s.vuelos[f].vel_cr * FactorViento(etiqueta))
        t_cr == Max(Cm(tmin_fase_crucero_min), TiempoFase(seg.crucero, vel_c))
    IN  [TimeoutVuelo(s3, t_cr, f) EXCEPT !.vuelos[f].pc = "crucero"]

\* lines 538-548: takeoff logged, origin slot released, cruise
FinDespegue(s, f, sorteo) ==
    LET o == Plan[f].origen
        s1 == LogEvento(s, o, "despegue", -1)
        s2 == Release(s1, o, f)
        etiqueta == EtiquetaViento(s2, o, "crucero", sorteo)
        s3 == GuardarViento(s2, o, "crucero", sorteo)
        seg == SegmentosDistancia(Plan[f].distancia_km)
        vel_c == Max(100, s.vuelos[f].vel_cr * FactorViento(etiqueta))
        t_cr == Max(Cm(tmin_fase_crucero_min), TiempoFase(seg.crucero, vel_c))
    IN  [TimeoutVuelo(s3, t_cr, f) EXCEPT !.vuelos[f].pc = "crucero"]

\* a decision that changes the destination without setting the flag
DecisionDesvio_sinMarca(s, f) ==
    LET d == Plan[f].destino
        espera == IF ~EsExterior(f) /\ d \in ConRecurso THEN EsperaEstimada(s, d) ELSE 0
        r == RedirigirSiConviene(s, d, espera, Plan[f].origen, Plan[f].distancia_km)
    IN  IF ~EsExterior(f) /\ espera > Cm(E.T_umbral_espera)
        THEN [r EXCEPT !.redirigido = FALSE]
        ELSE [destino |-> d, retraso |-> 0, redirigido |-> FALSE,
              dist |-> Plan[f].distancia_km]

\* lines 563-587: the destination after the diversion decision
DecisionDesvio(s, f) ==
    LET d == Plan[f].destino
        interno == ~EsExterior(f) /\ d \in ConRecurso
        espera == IF interno THEN EsperaEstimada(s, d) ELSE 0
        quedarse == [destino |-> d, retraso |-> 0, redirigido |-> FALSE,
                     dist |-> Plan[f].distancia_km]
    IN  IF ~EsExterior(f) /\ espera > Cm(E.T_umbral_espera)
        THEN LET r == RedirigirSiConviene(s, d, espera, Plan[f].origen,
                                          Plan[f].distancia_km)
             IN  IF r.redirigido THEN r ELSE quedarse
        ELSE quedarse

\* lines 563-602: end of cruise, diversion decision, approach
FinCrucero(s, f, sorteo, vel_aprox) ==
    Sea(DecisionDesvio(s, f), LAMBDA r :
    LET d == Plan[f].destino
        dec == IF ~EsExterior(f) /\ d \in ConRecurso
               THEN [hecha |-> TRUE, cola |-> Len(s.colaRec[d]),
                     ocup |-> Cardinality(s.usuarios[d]), ahora |-> s.now,
                     espera |-> EsperaEstimada(s, d),
                     libres |-> {a \in ConRecurso :
                                    Cardinality(s.usuarios[a]) < Capacidad(a)}]
               ELSE SinDecision
        s1 == [s EXCEPT !.vuelos[f].dec = dec,
                        !.vuelos[f].redirigido = r.redirigido,
                        !.vuelos[f].retraso_por_redir = r.retraso,
                        !.vuelos[f].destino_final = r.destino,
                        !.vuelos[f].dist_plan_km = r.dist]
        etiqueta == IF EsExterior(f) THEN "neutro"
                    ELSE EtiquetaViento(s1, r.destino, "aproximacion", sorteo)
        s2 == IF EsExterior(f) THEN s1
              ELSE GuardarViento(s1, r.destino, "aproximacion", sorteo)
        seg == SegmentosDistancia(r.dist)
        t_aprox == DuracionFase(tmin_fase_aproximacion_min, seg.aprox, vel_aprox,
                                FactorViento(etiqueta))
    IN  [TimeoutVuelo(s2, t_aprox, f) EXCEPT !.vuelos[f].pc = "aprox"])

\* lines 681-723: the flight record
Registrar(s0, f, destino_final, espera_cola) ==
    Sea(s0, LAMBDA s :
    LET salida_prog == Cm(Plan[f].minuto_salida)
        llegada_real == s.now
        retraso_total == Max(0, llegada_real - salida_prog) - Cm(Plan[f].duracion_minutos)
    IN  [s EXCEPT !.registros = Append(@,
             [id_vuelo |-> Plan[f].id_vuelo,
              origen |-> Plan[f].origen,
              destino_programado |-> Plan[f].destino,
              destino_final |-> destino_final,
              redirigido |-> s.vuelos[f].redirigido,
              es_exterior |-> EsExterior(f),
              salida_programada |-> salida_prog,
              llegada_real |-> llegada_real,
              retraso_total_min |-> retraso_total,
              retraso_por_redireccion_min |-> s.vuelos[f].retraso_por_redir,
              tiempo_espera_cola_min |-> espera_cola]),
                  !.vuelos[f].destino_final = destino_final,
                  !.vuelos[f].pc = "fin"])

\* a request that goes to the scheduled destination also after a diversion
TrasSeparacion_aProgramado(s, f) ==
    LET df == s.vuelos[f].destino_final
        s1 == [s EXCEPT !.sepRuta[ClaveRuta(Plan[f].origen, df)] = s.now]
    IN  IF ~EsExterior(f) /\ df \in ConRecurso
        THEN Request([s1 EXCEPT !.vuelos[f].espera_ini = s.now,
                                !.vuelos[f].pc = "req_destino"], Plan[f].destino, f)
        ELSE Registrar(s1, f, EXTERIOR, 0)

\* a flight that gives up and leaves the system when its destination is full
TrasSeparacion_abandona(s, f) ==
    LET df == s.vuelos[f].destino_final
        s1 == [s EXCEPT !.sepRuta[ClaveRuta(Plan[f].origen, df)] = s.now]
    IN  IF ~EsExterior(f) /\ df \in ConRecurso
            /\ Cardinality(s.usuarios[df]) < Capacidad(df)
        THEN Request([s1 EXCEPT !.vuelos[f].espera_ini = s.now,
                                !.vuelos[f].pc = "req_destino"], df, f)
        ELSE Registrar(s1, f, EXTERIOR, 0)

\* an end of flight that counts the whole flight as queue wait when there is
\* no destination resource
TrasSeparacion_conEspera(s, f) ==
    LET df == s.vuelos[f].destino_final
        s1 == [s EXCEPT !.sepRuta[ClaveRuta(Plan[f].origen, df)] = s.now]
    IN  IF ~EsExterior(f) /\ df \in ConRecurso
        THEN Request([s1 EXCEPT !.vuelos[f].espera_ini = s.now,
                                !.vuelos[f].pc = "req_destino"], df, f)
        ELSE Registrar(s1, f, EXTERIOR, s.now - s.vuelos[f].espera_ini)

\* lines 618-626 and 673-679, after the route separation: request of the
\* destination slot, or the end of a flight that has no destination resource
TrasSeparacion(s, f) ==
    LET df == s.vuelos[f].destino_final
        s1 == [s EXCEPT !.sepRuta[ClaveRuta(Plan[f].origen, df)] = s.now]
    IN  IF ~EsExterior(f) /\ df \in ConRecurso
        THEN Request([s1 EXCEPT !.vuelos[f].espera_ini = s.now,
                                !.vuelos[f].pc = "req_destino"], df, f)
        ELSE Registrar(s1, f, EXTERIOR, 0)

\* line 618: _esperar_separacion_ruta at the end of the approach
FinAprox(s, f) ==
    LET clave == ClaveRuta(Plan[f].origen, s.vuelos[f].destino_final)
    IN  IF DebeEsperarRuta(s, Plan[f].origen, s.vuelos[f].destino_final)
        THEN [TimeoutVuelo(s, (s.sepRuta[clave] + SepCm) - s.now, f)
                 EXCEPT !.vuelos[f].pc = "sep_ruta"]
        ELSE TrasSeparacion(s, f)

\* lines 647-655, after the runway wait at the destination: landing phase
Aterrizar(s, f, sorteo, vel_at) ==
    LET df == s.vuelos[f].destino_final
        s1 == MarcarPista(s, df, f)
        etiqueta == EtiquetaViento(s1, df, "aterrizaje", sorteo)
        s2 == GuardarViento(s1, df, "aterrizaje", sorteo)
        seg == SegmentosDistancia(s.vuelos[f].dist_plan_km)
        t_at == DuracionFase(tmin_fase_aterrizaje_min, seg.aterr, vel_at,
                             FactorViento(etiqueta))
    IN  [TimeoutVuelo(s2, t_at, f) EXCEPT !.vuelos[f].pc = "aterrizaje"]

\* lines 626-647: destination slot granted; queue wait measured; runway wait
ConcedidoDestino(s, f, sorteo, vel_at) ==
    LET df == s.vuelos[f].destino_final
        s1 == [s EXCEPT !.vuelos[f].espera_cola = s.now - s.vuelos[f].espera_ini]
    IN  IF DebeEsperarPista(s1, df)
        THEN [TimeoutVuelo(s1, (s1.pista[df] + SepCm) - s1.now, f)
                 EXCEPT !.vuelos[f].pc = "pista_destino"]
        ELSE Aterrizar(s1, f, sorteo, vel_at)

\* a landing that records the flight and keeps the slot
FinAterrizaje_sinLiberar(s, f) ==
    LET df == s.vuelos[f].destino_final
        s1 == LogEvento(s, df, "aterrizaje", 1)
        s2 == LogEvento(s1, df, "salida_destino", -1)
    IN  Registrar(s2, f, df, s.vuelos[f].espera_cola)

\* lines 669-723: landing and departure logged, slot released, record appended
FinAterrizaje(s, f) ==
    LET df == s.vuelos[f].destino_final
        s1 == LogEvento(s, df, "aterrizaje", 1)
        s2 == LogEvento(s1, df, "salida_destino", -1)
        s3 == Release(s2, df, f)
    IN  Registrar(s3, f, df, s.vuelos[f].espera_cola)

-----------------------------------------------------------------------------
(* _proceso_ruido_exterior *)

\* lines 219-220 and 223-224: n events of the noise process of a
LogRuido(s, a, evento, delta, n) ==
    IF E.plan = <<>> /\ s.now >= Cm(MaxMinutos) THEN s
    ELSE LogEventoN(s, a, evento, delta, n)

\* lines 209-211: draw the interval and sleep
DormirRuido(s, a, intervalo) ==
    [TimeoutRuido(s, Cm(intervalo), a) EXCEPT !.ruidos[a].pc = "intervalo"]

\* lines 223-224 and back to 210: log the departures, draw the next interval
FinEstancia(s, a, intervalo) ==
    DormirRuido(LogRuido(s, a, "ext_salida", -1, s.ruidos[a].extra), a, intervalo)

\* lines 212-222: wake-up; stop past the horizon, otherwise log the arrivals
DespertarRuido(s, a, extra, dur, intervalo) ==
    IF PasadoHorizonte(s.now) THEN [s EXCEPT !.ruidos[a].pc = "fin"]
    ELSE IF a \notin ConRecurso THEN DormirRuido(s, a, intervalo)
    ELSE LET s1 == [LogRuido(s, a, "ext_llegada", 1, extra)
                       EXCEPT !.ruidos[a].extra = extra]
         IN  IF dur > 0
             THEN [TimeoutRuido(s1, Cm(dur), a) EXCEPT !.ruidos[a].pc = "estancia"]
             ELSE FinEstancia(s1, a, intervalo)


-----------------------------------------------------------------------------
(* AeropuertoBase (prototipo 1) *)

capacidad_total == E.cap[E.tabla[1]]

\* _atender_cola_aterrizajes, on the record [disp, cola, atendidos]
RECURSIVE AtenderColaAterrizajes(_)
AtenderColaAterrizajes(p) ==
    IF p.cola # <<>> /\ p.disp > 0
    THEN AtenderColaAterrizajes([disp |-> p.disp - 1, cola |-> Tail(p.cola),
                                 atendidos |-> Append(p.atendidos, Head(p.cola))])
    ELSE p

\* a release that frees the slot and leaves the landing queue unattended
LiberarPlaza_sinAtender(p) ==
    IF p.disp >= capacidad_total THEN p
    ELSE [p EXCEPT !.disp = @ + 1]

\* liberar_plaza_salida
LiberarPlaza(p) ==
    IF p.disp >= capacidad_total THEN p
    ELSE AtenderColaAterrizajes([p EXCEPT !.disp = @ + 1])

\* solicitar_aterrizaje
SolicitarAterrizajeP1(p, id) ==
    IF p.disp > 0
    THEN [p EXCEPT !.disp = @ - 1, !.atendidos = Append(@, id)]
    ELSE [p EXCEPT !.cola = Append(@, id)]

EstadoP1 == [disp |-> disp, cola |-> colaAt, atendidos |-> atendidos]

AplicarP1(p) ==
    /\ disp' = p.disp
    /\ colaAt' = p.cola
    /\ atendidos' = p.atendidos
    /\ UNCHANGED <<esc, varsDia, varsP2, varsRng, sim, gen, pes>>

\* reservar_salida raises, and changes nothing, when no slot is available
ReservarSalida ==
    /\ E.prototipo = 1
    /\ disp > 0
    /\ AplicarP1([EstadoP1 EXCEPT !.disp = @ - 1])

LiberarPlazaSalida ==
    /\ E.prototipo = 1
    /\ AplicarP1(LiberarPlaza(EstadoP1))

SolicitarAterrizaje ==
    /\ E.prototipo = 1
    /\ Len(atendidos) + Len(colaAt) < MaxSolicitudes
    /\ AplicarP1(SolicitarAterrizajeP1(EstadoP1, Len(atendidos) + Len(colaAt) + 1))

-----------------------------------------------------------------------------
(* The engine as a state machine *)

Claves == {{x, y} : x \in Nodos, y \in Nodos}

Ruidosos == IF E.prototipo = 2 THEN RangoSeq(TopIds) ELSE {}

Estado ==
    [now |-> now, cola |-> cola, vuelos |-> vuelos, ruidos |-> ruidos,
     usuarios |-> usuarios, colaRec |-> colaRec, ocupacion |-> ocupacion,
     eventos |-> eventos, registros |-> registros, pista |-> pista,
     sepRuta |-> sepRuta, vientos |-> vientos, usosPista |-> usosPista,
     pedidos |-> pedidos, concedidos |-> concedidos]

Aplicar(s) ==
    /\ now' = s.now
    /\ cola' = s.cola
    /\ vuelos' = s.vuelos
    /\ ruidos' = s.ruidos
    /\ usuarios' = s.usuarios
    /\ colaRec' = s.colaRec
    /\ ocupacion' = s.ocupacion
    /\ eventos' = s.eventos
    /\ registros' = s.registros
    /\ pista' = s.pista
    /\ sepRuta' = s.sepRuta
    /\ vientos' = s.vientos
    /\ usosPista' = s.usosPista
    /\ pedidos' = s.pedidos
    /\ concedidos' = s.concedidos
    /\ UNCHANGED <<esc, varsDia, varsP1, varsRng, sim, gen, pes>>

\* ejecutar_simulacion, lines 176-180: the occupancy of the last event of
\* every airport that has one; no override at all when the log is empty
Carry(evs) ==
    [a \in {evs[i].aeropuerto : i \in 1..Len(evs)} |->
        evs[CHOOSE i \in 1..Len(evs) :
               /\ evs[i].aeropuerto = a
               /\ \A j \in (i + 1)..Len(evs) : evs[j].aeropuerto # a].ocupacion]

\* the seed of the generator of the engine of day d: main passes the same
\* config.config_simulacion to every engine, and __init__ seeds
\* random.Random with its seed
SemillaMotor(d) == seed

\* generar_plan_diario not called
SinLlamada ==
    [pc |-> "fin", grafo |-> <<>>, total_vuelos_diarios |-> 0,
     concentracion_horas_punta |-> FALSE, velocidad_crucero_kmh |-> 0,
     vuelos_por_ruta |-> <<>>, horarios |-> <<>>, plan |-> <<>>, df |-> <<>>, error |-> ""]

\* _anadir_pesos not called
SinPesos ==
    [pc |-> "fin", flujos |-> <<>>, posiciones |-> <<>>, fila |-> 1, grafo |-> <<>>,
     total |-> 0, pax_por_aer |-> <<>>]

\* no SimulacionPrototipo1 built
SimVacia ==
    [now |-> 0, cola |-> <<>>, hasta |-> 0, pc |-> <<>>, disp |-> <<>>, colaAt |-> <<>>,
     concedido |-> <<>>, cond |-> <<>>, entrada |-> <<>>, finalizados |-> <<>>,
     fallo |-> "", parado |-> FALSE]

\* __init__ (and the AeropuertoBase of prototipo 1) for one of the inputs S
Arranque(S) ==
    /\ esc \in S
    /\ dia = 1
    /\ ayer = <<>>
    /\ semillas = <<SemillaMotor(1)>>
    /\ now = 0
    /\ cola = IF E.prototipo = 2 THEN ColaInicial(TopIds, Len(Plan)) ELSE <<>>
    /\ vuelos = [f \in Vuelos |-> VueloNuevo(f)]
    /\ ruidos = [a \in Ruidosos |-> [pc |-> "nuevo", extra |-> 0]]
    /\ usuarios = [a \in ConRecurso |-> {}]
    /\ colaRec = [a \in ConRecurso |-> <<>>]
    /\ \E inicial \in {[a \in ConRecurso |->
                           IF E.prototipo = 2 THEN OcupacionInicial(a) ELSE {0}]} :
          ocupacion \in {o \in [ConRecurso -> 0..5] :
                            \A a \in ConRecurso : o[a] \in inicial[a]}
    /\ eventos = EventosIniciales(E.tabla, ocupacion)
    /\ registros = <<>>
    /\ pista = [a \in Aer |-> NUNCA]
    /\ sepRuta = [k \in Claves |-> NUNCA]
    /\ vientos = [k \in Aer \X Fases |-> ""]
    /\ usosPista = <<>>
    /\ pedidos = [a \in ConRecurso |-> <<>>]
    /\ concedidos = [a \in ConRecurso |-> <<>>]
    /\ disp = IF E.prototipo = 1 THEN capacidad_total ELSE 0
    /\ colaAt = <<>>
    /\ atendidos = <<>>

Init ==
    /\ Arranque({Escenarios[i] : i \in 1..Len(Escenarios)})
    /\ flujo = <<>>
    /\ consumidos = <<>>
    /\ cacheDe = <<>>
    /\ sim = SimVacia
    /\ gen = SinLlamada
    /\ pes = SinPesos

\* Environment.step: the next event is popped and the clock moves to it
Cabeza == cola[1]

Extraido == [Estado EXCEPT !.now = Cabeza.t, !.cola = Tail(cola)]

\* the callback of the popped event runs to its next yield
Procesar(F(_)) == \E s \in {Extraido} : \E sig \in {F(s)} : Aplicar(sig)

DespiertaVuelo(tipo, pc) ==
    /\ E.prototipo = 2
    /\ cola # <<>>
    /\ Cabeza.tipo = tipo
    /\ Cabeza.v # 0
    /\ vuelos[Cabeza.v].pc = pc

DespiertaRuido(tipo, pc) ==
    /\ E.prototipo = 2
    /\ cola # <<>>
    /\ Cabeza.tipo = tipo
    /\ Cabeza.v = 0
    /\ ruidos[Cabeza.a].pc = pc

\* the outcomes of rng.uniform(lo, hi) in _velocidad_objetivo that a scenario
\* explores: both ends of the range for the phases it names, the lower end
\* for the others
Sorteo(fase, tipo) ==
    LET ref == VelocidadObjetivo(fase, tipo)
    IN  IF fase \in E.sorteos THEN ref
        ELSE {CHOOSE v \in ref : \A w \in ref : v <= w}

VelCrucero(f) ==
    Sorteo("crucero", SeleccionarTipoAeronave(Plan[f].distancia_km))

VueloInicio ==
    /\ DespiertaVuelo("init", "nuevo")
    /\ \E vel_cr \in VelCrucero(Cabeza.v) :
          Procesar(LAMBDA s : IniciarVuelo(s, Cabeza.v, vel_cr))

VueloSalida ==
    /\ DespiertaVuelo("timeout", "espera_salida")
    /\ \E vel_cr \in VelCrucero(Cabeza.v) :
          Procesar(LAMBDA s : SolicitarOrigen(s, Cabeza.v, vel_cr))

VueloRodaje ==
    /\ DespiertaVuelo("grant", "req_origen")
    /\ \E vel \in Sorteo("rodaje", "") :
          Procesar(LAMBDA s : Rodar(s, Cabeza.v, vel))

VueloFinRodaje ==
    /\ DespiertaVuelo("timeout", "rodaje")
    /\ \E sorteo \in Etiquetas, vel \in Sorteo("despegue", "") :
          Procesar(LAMBDA s : FinRodaje(s, Cabeza.v, sorteo, vel))

VueloPistaOrigen ==
    /\ DespiertaVuelo("timeout", "pista_origen")
    /\ \E sorteo \in Etiquetas, vel \in Sorteo("despegue", "") :
          Procesar(LAMBDA s : Despegar(s, Cabeza.v, sorteo, vel))

VueloFinDespegue ==
    /\ DespiertaVuelo("timeout", "despegue")
    /\ \E sorteo \in Etiquetas : Procesar(LAMBDA s : FinDespegue(s, Cabeza.v, sorteo))

VueloFinCrucero ==
    /\ DespiertaVuelo("timeout", "crucero")
    /\ \E sorteo \in Etiquetas, vel \in Sorteo("aproximacion", "") :
          Procesar(LAMBDA s : FinCrucero(s, Cabeza.v, sorteo, vel))

VueloFinAprox ==
    /\ DespiertaVuelo("timeout", "aprox")
    /\ Procesar(LAMBDA s : FinAprox(s, Cabeza.v))

VueloSepRuta ==
    /\ DespiertaVuelo("timeout", "sep_ruta")
    /\ Procesar(LAMBDA s : TrasSeparacion(s, Cabeza.v))

VueloConcedidoDestino ==
    /\ DespiertaVuelo("grant", "req_destino")
    /\ \E sorteo \in Etiquetas, vel \in Sorteo("aterrizaje", "") :
          Procesar(LAMBDA s : ConcedidoDestino(s, Cabeza.v, sorteo, vel))

VueloPistaDestino ==
    /\ DespiertaVuelo("timeout", "pista_destino")
    /\ \E sorteo \in Etiquetas, vel \in Sorteo("aterrizaje", "") :
          Procesar(LAMBDA s : Aterrizar(s, Cabeza.v, sorteo, vel))

VueloFinAterrizaje ==
    /\ DespiertaVuelo("timeout", "aterrizaje")
    /\ Procesar(LAMBDA s : FinAterrizaje(s, Cabeza.v))

\* a Release event is processed: its callback serves the queue
EventoRelease ==
    /\ E.prototipo = 2
    /\ cola # <<>>
    /\ Cabeza.tipo = "release"
    /\ Procesar(LAMBDA s : TriggerPut(s, Cabeza.a))

RuidoInicio ==
    /\ DespiertaRuido("init", "nuevo")
    /\ \E intervalo \in E.intervalo :
          Procesar(LAMBDA s : DormirRuido(s, Cabeza.a, intervalo))

RuidoDespertar ==
    /\ DespiertaRuido("timeout", "intervalo")
    /\ \E extra \in E.ruido, dur \in E.estancia, intervalo \in E.intervalo :
          Procesar(LAMBDA s : DespertarRuido(s, Cabeza.a, extra, dur, intervalo))

RuidoFinEstancia ==
    /\ DespiertaRuido("timeout", "estancia")
    /\ \E intervalo \in E.intervalo :
          Procesar(LAMBDA s : FinEstancia(s, Cabeza.a, intervalo))

\* ejecutar_simulacion, lines 123-180: the run of the day has returned; the
\* plan is shifted and a new engine is built with the occupancies carried over
NuevoDia ==
    /\ E.prototipo = 2
    /\ cola = <<>>
    /\ dia < E.dias
    /\ dia' = dia + 1
    /\ ayer' = eventos
    /\ semillas' = Append(semillas, SemillaMotor(dia + 1))
    /\ now' = 0
    /\ cola' = ColaInicial(TopIds, Len(E.plan))
    /\ vuelos' = [f \in Vuelos |-> VueloNuevo(f)]
    /\ ruidos' = [a \in Ruidosos |-> [pc |-> "nuevo", extra |-> 0]]
    /\ usuarios' = [a \in ConRecurso |-> {}]
    /\ colaRec' = [a \in ConRecurso |-> <<>>]
    /\ \E inicial \in {[a \in ConRecurso |-> OcupacionInicialCon(Carry(eventos), a)]} :
          ocupacion' \in {o \in [ConRecurso -> 0..5] :
                             \A a \in ConRecurso : o[a] \in inicial[a]}
    /\ eventos' = EventosIniciales(E.tabla, ocupacion')
    /\ registros' = <<>>
    /\ pista' = [a \in Aer |-> NUNCA]
    /\ sepRuta' = [k \in Claves |-> NUNCA]
    /\ vientos' = [k \in Aer \X Fases |-> ""]
    /\ usosPista' = <<>>
    /\ pedidos' = [a \in ConRecurso |-> <<>>]
    /\ concedidos' = [a \in ConRecurso |-> <<>>]
    /\ UNCHANGED <<esc, varsP1, varsRng, sim, gen, pes>>

\* env.run(): the callbacks of the event loop
Motor ==
    \/ VueloInicio
    \/ VueloSalida
    \/ VueloRodaje
    \/ VueloFinRodaje
    \/ VueloPistaOrigen
    \/ VueloFinDespegue
    \/ VueloFinCrucero
    \/ VueloFinAprox
    \/ VueloSepRuta
    \/ VueloConcedidoDestino
    \/ VueloPistaDestino
    \/ VueloFinAterrizaje
    \/ EventoRelease
    \/ RuidoInicio
    \/ RuidoDespertar
    \/ RuidoFinEstancia

\* the engine of prototipo 2, or a call on the prototipo 1 airport
Next ==
    \/ Motor
    \/ NuevoDia
    \/ ReservarSalida
    \/ LiberarPlazaSalida
    \/ SolicitarAterrizaje

Spec == Init /\ [][Next]_vars


\* env.run() without "until": the loop processes events until none is
\* scheduled, so an engine step that stays possible is eventually taken
FairSpec == Spec /\ WF_vars(Motor)

-----------------------------------------------------------------------------
(* Properties *)

EsP2 == E.prototipo = 2

FinNatural == EsP2 /\ cola = <<>>

\* C1: for every airport, in every state and in every logged event,
\* 0 <= occupancy <= capacity; a Resource never has more users than its
\* capacity; and the prototipo 1 airport keeps
\* 0 <= capacidad_disponible <= capacidad_total.
OcupacionAcotada ==
    /\ \A a \in DOMAIN ocupacion : 0 <= ocupacion[a] /\ ocupacion[a] <= Capacidad(a)
    /\ \A i \in 1..Len(eventos) :
          0 <= eventos[i].ocupacion /\ eventos[i].ocupacion <= eventos[i].capacidad
    /\ \A a \in DOMAIN usuarios : Cardinality(usuarios[a]) <= Capacidad(a)
    /\ E.prototipo = 1 => 0 <= disp /\ disp <= capacidad_total

\* C1 witness: a flight's "+1" event and a noise arrival both hit an airport
\* whose logged occupancy is already at capacity
TopeAlcanzado ==
    /\ \E i \in 1..Len(eventos) : eventos[i].evento = "ext_llegada_cap_llena"
    /\ \E i \in 1..Len(eventos) : eventos[i].evento = "aterrizaje_cap_llena"

\* C2: any two completed runway waits at the same airport are at least
\* separar_minutos apart.
SeparacionPista ==
    \A i \in 1..Len(usosPista) : \A j \in 1..Len(usosPista) :
        (i < j /\ usosPista[i].aeropuerto = usosPista[j].aeropuerto)
            => usosPista[j].t - usosPista[i].t >= SepCm


EsPrefijo(p, q) == Len(p) <= Len(q) /\ p = SubSeq(q, 1, Len(p))

\* C3: on every airport resource the grants follow the order of the
\* requests: the flights granted so far are exactly the first requesters,
\* in request order, and the rest wait in that same order (also among
\* requests of one instant); the prototipo 1 airport serves its landing
\* requests in the order they were made.
OrdenFifo ==
    /\ \A a \in DOMAIN pedidos :
          /\ EsPrefijo(concedidos[a], pedidos[a])
          /\ pedidos[a] = concedidos[a] \o colaRec[a]
    /\ atendidos \o colaAt = [i \in 1..(Len(atendidos) + Len(colaAt)) |-> i]

\* C3 witness: two flights queued at once behind the holder of the slot
DosEnCola ==
    /\ EsP2
    /\ \E a \in DOMAIN colaRec : Len(colaRec[a]) >= 2 /\ Len(concedidos[a]) >= 1

Completo ==
    /\ Plan # <<>> => cola = <<>>
    /\ Len(registros) = Len(Plan)
    /\ \A f \in Vuelos :
          Cardinality({i \in 1..Len(registros) :
                          registros[i].id_vuelo = Plan[f].id_vuelo}) = 1

EnCola(f, a) == \E i \in 1..Len(colaRec[a]) : colaRec[a][i] = f

\* C5: a completed flight holds no slot and waits for none; at the natural
\* end every resource has no user and an empty queue.
SlotsLiberados ==
    /\ \A f \in Vuelos : vuelos[f].pc = "fin" =>
          \A a \in DOMAIN usuarios : f \notin usuarios[a] /\ ~EnCola(f, a)
    /\ FinNatural => \A a \in DOMAIN usuarios : usuarios[a] = {} /\ colaRec[a] = <<>>

\* C5 witness: the natural end of a run with a diverted flight, a flight that
\* landed where planned and slots that were in fact taken at both ends
FinConDesvio ==
    /\ FinNatural
    /\ \E i \in 1..Len(registros) : registros[i].redirigido
    /\ \E i \in 1..Len(registros) :
          ~registros[i].redirigido /\ registros[i].destino_final # EXTERIOR
    /\ \A i \in 1..Len(registros) :
          Len(concedidos[registros[i].origen]) >= 1

\* C7: every flight record has real arrival >= scheduled departure + nominal
\* duration, that is retraso_total_min >= 0.
RetrasoNoNegativo ==
    \A i \in 1..Len(registros) :
        /\ registros[i].llegada_real >=
              registros[i].salida_programada + Cm(Plan[registros[i].id_vuelo].duracion_minutos)
        /\ registros[i].retraso_total_min >= 0

\* C8: in every flight record, redirigido holds exactly when the final
\* destination differs from the scheduled one and is not EXTERIOR.
RedirigidoSii ==
    \A i \in 1..Len(registros) :
        registros[i].redirigido <=>
            (/\ registros[i].destino_final # registros[i].destino_programado
             /\ registros[i].destino_final # EXTERIOR)

\* C8 witness: the record of a diverted flight
RegistroDesviado == \E i \in 1..Len(registros) : registros[i].redirigido

\* C9: the destination of a flight changes only in the step that ends its
\* cruise; a flight that has requested its destination slot keeps its
\* destination, and leaves the queue only into the users of that resource.
SoloConcesion ==
    [][\A f \in Vuelos :
          /\ vuelos'[f].destino_final # vuelos[f].destino_final
                => vuelos[f].pc = "crucero"
          /\ vuelos[f].pc = "req_destino" =>
                LET df == vuelos[f].destino_final
                IN  /\ vuelos'[f].destino_final = df
                    /\ vuelos'[f].pc \in {"req_destino", "pista_destino", "aterrizaje"}
                    /\ vuelos'[f].pc # "req_destino" => f \in usuarios[df]
                    /\ (EnCola(f, df) /\ ~EnCola(f, df)') => f \in usuarios'[df]
                    /\ (~EnCola(f, df) /\ f \in usuarios[df]) => f \in usuarios'[df]
      ]_vars

\* C9 witness: a flight that took its diversion decision, queued for its
\* destination and was granted the slot
EsperoYAterrizo ==
    \E f \in Vuelos :
        /\ vuelos[f].pc = "fin"
        /\ vuelos[f].dec.hecha
        /\ vuelos[f].espera_cola > 0

\* the estimate of C10 on the snapshot taken at the decision
EstimadaDe(f) ==
    LET d == Plan[f].destino
        dec == vuelos[f].dec
    IN  (dec.cola * Cm(separar_minutos)) \div Capacidad(d)
        + (IF dec.ocup = Capacidad(d)
           THEN TiempoEsperaSiguienteSalida(d, dec.ahora) ELSE 0)

\* C10: a diverted flight had, at the end of its cruise, an estimated wait
\* (queue length / capacity x separar_minutos, plus the minutes to the next
\* scheduled departure from the destination only when all its slots were
\* held) strictly above T_umbral_espera; a flight that found a free slot and
\* an empty queue is not diverted.
DesvioSoloSobreUmbral ==
    \A f \in Vuelos :
        /\ vuelos[f].redirigido =>
              vuelos[f].dec.hecha /\ EstimadaDe(f) > Cm(E.T_umbral_espera)
        /\ (vuelos[f].dec.hecha /\ vuelos[f].dec.cola = 0
               /\ vuelos[f].dec.ocup < Capacidad(Plan[f].destino))
              => ~vuelos[f].redirigido

\* C10 witness: one flight diverted from a full destination while another
\* one, which found a free slot there, kept its destination
DesviadoYNoDesviado ==
    /\ \E f \in Vuelos : vuelos[f].redirigido /\ vuelos[f].dec.ocup = Capacidad(Plan[f].destino)
    /\ \E f \in Vuelos : /\ vuelos[f].dec.hecha /\ ~vuelos[f].redirigido
                         /\ vuelos[f].dec.ocup < Capacidad(Plan[f].destino)
                         /\ TiempoEsperaSiguienteSalida(Plan[f].destino, vuelos[f].dec.ahora)
                               > Cm(E.T_umbral_espera)


Interno(f) == ~EsExterior(f) /\ Plan[f].destino \in ConRecurso

\* C11: a diverted flight goes to an airport c whose shortest path from the
\* origin is at most 1.3 x the planned distance and whose flying time at the
\* reference cruise speed is strictly below the wait projected at the
\* decision; any other internal flight keeps destination, planned distance
\* and flag.
PlanificadorAcepta ==
    \A f \in Vuelos : Interno(f) =>
        IF vuelos[f].redirigido
        THEN LET dist_total == DistGrafo(Plan[f].origen, vuelos[f].destino_final)
             IN  /\ dist_total * 10 <= Plan[f].distancia_km * 13
                 /\ TiempoFase(dist_total * 100, vel_cru_medio_kmh * 100) < vuelos[f].dec.espera
                 /\ vuelos[f].dist_plan_km = dist_total
                 /\ vuelos[f].retraso_por_redir
                       = TiempoFase(dist_total * 100, vel_cru_medio_kmh * 100)
        ELSE /\ vuelos[f].destino_final = Plan[f].destino
             /\ vuelos[f].dist_plan_km = Plan[f].distancia_km

\* C11 witness: a flight whose projected wait was above the threshold and that
\* kept its destination because the free alternative C was out of reach
FueraDeAlcance ==
    \E f \in Vuelos :
        /\ Interno(f) /\ vuelos[f].dec.hecha /\ ~vuelos[f].redirigido
        /\ vuelos[f].dec.espera > Cm(E.T_umbral_espera)
        /\ "C" \in ConRecurso /\ usuarios["C"] = {} /\ Len(pedidos["C"]) = 0
        /\ DistGrafo(Plan[f].origen, "C") * 10 > Plan[f].distancia_km * 13
        /\ TiempoFase(DistGrafo(Plan[f].origen, "C") * 100, vel_cru_medio_kmh * 100)
              < vuelos[f].dec.espera

\* the airports the planner may choose for flight f: neither the original
\* destination nor the origin, with a free slot when f decided
Elegibles(f) == vuelos[f].dec.libres \ {Plan[f].destino, Plan[f].origen}

\* C12: the airport a diverted flight was sent to differs from its original
\* destination and from its origin, held fewer slots than its capacity when the
\* flight decided, and no other such airport is nearer (km-weighted shortest
\* path) to the original destination; an airport full at that time is never
\* the new destination.
CandidatoLibreYCercano ==
    \A f \in Vuelos : vuelos[f].redirigido =>
        /\ vuelos[f].destino_final \in Elegibles(f)
        /\ \A c \in Elegibles(f) :
               DistGrafo(Plan[f].destino, vuelos[f].destino_final)
                   <= DistGrafo(Plan[f].destino, c)

\* C12 witness: a flight was diverted to C while D, nearer to its destination
\* B, was full, and another flight was diverted to D with C free as well
NoAlLleno ==
    \E f \in Vuelos :
        /\ vuelos[f].redirigido /\ vuelos[f].destino_final = "C"
        /\ "D" \in ConRecurso /\ "D" \notin vuelos[f].dec.libres
        /\ DistGrafo(Plan[f].destino, "D") < DistGrafo(Plan[f].destino, "C")
        /\ DistGrafo(Plan[f].origen, "D") * 10 <= Plan[f].distancia_km * 13

AterrizajeEn(a) ==
    \E i \in 1..Len(eventos) :
        eventos[i].aeropuerto = a /\ eventos[i].evento = "aterrizaje"

RegistroDe(f) == {i \in 1..Len(registros) : registros[i].id_vuelo = Plan[f].id_vuelo}

\* C13 as stated: in spec scenario 3, once the run has ended, the first
\* flight has landed at B, the second or the third was diverted to C
\* (redirigido = true, destino_final = C) and a landing event is logged at C.
DesvioEnEscenarioTres ==
    (E = EscTres /\ FinNatural) =>
        /\ \E i \in RegistroDe(1) : registros[i].destino_final = "B"
        /\ \E f \in {2, 3} : \E i \in RegistroDe(f) :
              registros[i].redirigido /\ registros[i].destino_final = "C"
        /\ AterrizajeEn("C")

\* C13 amended: in spec scenario 3 no flight is diverted: no departure is
\* planned from B, so the estimated wait is the queue term alone, at most
\* 3 minutes for the one flight that can be waiting; every record has
\* redirigido = false and destino_final = B, no landing is logged at C, and at
\* the end of the run the three flights have landed at B.
SinDesvioEnEscenarioTres ==
    E = EscTres =>
        /\ \A f \in Vuelos :
              /\ ~vuelos[f].redirigido
              /\ vuelos[f].dec.espera <= Cm(E.T_umbral_espera)
        /\ \A i \in 1..Len(registros) :
              ~registros[i].redirigido /\ registros[i].destino_final = "B"
        /\ ~AterrizajeEn("C")
        /\ FinNatural => \A f \in Vuelos : RegistroDe(f) # {}

\* C13 witness: the run of spec scenario 3 has ended with three records, and
\* one flight decided to go on to B while B was full
TresAterrizanEnB ==
    /\ E = EscTres /\ FinNatural
    /\ Len(registros) = 3
    /\ \E f \in Vuelos :
          /\ vuelos[f].dec.hecha
          /\ vuelos[f].dec.ocup >= Capacidad("B")
          /\ "C" \in vuelos[f].dec.libres

HaciaExterior(f) == Plan[f].destino = EXTERIOR

VecesEn(seq, f) == Cardinality({i \in 1..Len(seq) : seq[i] = f})

\* C14: a flight whose destination is EXTERIOR requests no slot but the one of
\* its origin, holds or waits for no slot of another airport, is never
\* diverted and never enters the destination queue or the landing phase; its
\* record has destino_final = EXTERIOR and tiempo_espera_cola_min = 0; and a
\* run whose flights all go to EXTERIOR logs no "aterrizaje" and no
\* "salida_destino" event at any airport.
ExteriorSinDestino ==
    /\ \A f \in Vuelos : HaciaExterior(f) =>
          /\ ~vuelos[f].redirigido
          /\ vuelos[f].destino_final = EXTERIOR
          /\ vuelos[f].pc \notin {"req_destino", "pista_destino", "aterrizaje"}
          /\ \A a \in ConRecurso :
                /\ VecesEn(pedidos[a], f) <= (IF a = Plan[f].origen THEN 1 ELSE 0)
                /\ a # Plan[f].origen => f \notin usuarios[a] /\ ~EnCola(f, a)
          /\ \A i \in RegistroDe(f) :
                /\ registros[i].destino_final = EXTERIOR
                /\ registros[i].tiempo_espera_cola_min = 0
                /\ ~registros[i].redirigido
    /\ (EsP2 /\ \A f \in Vuelos : HaciaExterior(f)) =>
          \A i \in 1..Len(eventos) :
              eventos[i].evento \notin {"aterrizaje", "salida_destino",
                                        "aterrizaje_cap_llena"}

\* C14 witness: an exterior flight has taken off, flown and been recorded
ExteriorRegistrado ==
    \E f \in Vuelos :
        /\ HaciaExterior(f)
        /\ vuelos[f].pc = "fin"
        /\ RegistroDe(f) # {}
        /\ \E i \in 1..Len(eventos) : eventos[i].evento = "despegue"

PlanVacio == EsP2 /\ Plan = <<>>

\* C15 as stated: with an empty plan there is never a flight record and every
\* occupancy event is an initial-occupancy event.
SoloEventosIniciales ==
    PlanVacio =>
        /\ registros = <<>>
        /\ \A i \in 1..Len(eventos) : eventos[i].evento = "ocupacion_inicial"

\* the occupancy of the airport of event i just before it was logged: that of
\* the previous event of the airport, 0 when there is none
OcupacionPrevia(i) ==
    LET antes == {j \in 1..(i - 1) : eventos[j].aeropuerto = eventos[i].aeropuerto}
    IN  IF antes = {} THEN 0
        ELSE eventos[CHOOSE j \in antes : \A k \in antes : k <= j].ocupacion

Suma == {"ext_llegada", "aterrizaje"}

Rechazado == {"ext_llegada_cap_llena", "aterrizaje_cap_llena"}

EventosDe(a) == SelectSeq(eventos, LAMBDA e : e.aeropuerto = a)

EsLlegadaExt(e) == e.evento \in {"ext_llegada", "ext_llegada_cap_llena"}

EsSalidaExt(e) == e.evento = "ext_salida"

\* the events p .. p+2K-1 of e are one whole pulse: K external arrivals, then
\* K external departures, nothing else of the airport in between
EsPulso(e, p, K) ==
    /\ p + 2 * K - 1 <= Len(e)
    /\ \A i \in p..(p + K - 1) : EsLlegadaExt(e[i])
    /\ \A i \in (p + K)..(p + 2 * K - 1) : EsSalidaExt(e[i])
    /\ p > 1 => ~EsLlegadaExt(e[p - 1])
    /\ p + 2 * K <= Len(e) => ~EsSalidaExt(e[p + 2 * K])

\* C17 as stated: after the K arrivals and the K departures of a pulse the
\* logged occupancy of the airport is what it was before the pulse, refused
\* arrivals included.
PulsoEquilibrado ==
    \A a \in DOMAIN ocupacion :
        \A p \in 1..Len(EventosDe(a)), K \in exterior_ruido_min..exterior_ruido_max :
            EsPulso(EventosDe(a), p, K) =>
                EventosDe(a)[p + 2 * K - 1].ocupacion
                    = (IF p = 1 THEN 0 ELSE EventosDe(a)[p - 1].ocupacion)

RuidoTerminado == \A a \in Ruidosos : ruidos[a].pc = "fin"

\* C18 as stated: every noise process eventually terminates, and no external
\* arrival is logged at or after the horizon (latest scheduled arrival of the
\* plan + 60 minutes).
RuidoTermina ==
    /\ <>RuidoTerminado
    /\ [](\A i \in 1..Len(eventos) :
              EsLlegadaExt(eventos[i]) => ~PasadoHorizonte(eventos[i].minuto))

\* the occupancy of the last event of airport a in the log evs; 0, the
\* occupancy of an airport that logged nothing, when there is none
UltimaOcupacion(evs, a) ==
    IF a \in DOMAIN Carry(evs) THEN Carry(evs)[a] ELSE 0

\* the occupancy of the "ocupacion_inicial" event of airport a in the log evs;
\* 0, the only initial occupancy that logs no event, when there is none
OcupacionInicialDe(evs, a) ==
    LET ini == {i \in 1..Len(evs) : /\ evs[i].aeropuerto = a
                                    /\ evs[i].evento = "ocupacion_inicial"}
    IN  IF ini = {} THEN 0 ELSE evs[CHOOSE i \in ini : TRUE].ocupacion

\* C19 as stated: from the second day on, every airport starts the day with
\* the occupancy of its last event of the day before, airports that ended the
\* day at 0 or logged no event that day included.
OcupacionContinua ==
    dia > 1 =>
        \A a \in ConRecurso :
            OcupacionInicialDe(eventos, a) = UltimaOcupacion(ayer, a)

\* C20 as stated: in a multi-day run the engine of day k is seeded with
\* seed + k, so that the engines of different days have different seeds.
SemillaPorDia ==
    E.dias > 1 =>
        /\ \A k \in 1..Len(semillas) : semillas[k] = seed + k
        /\ \A j, k \in 1..Len(semillas) : j # k => semillas[j] # semillas[k]

\* fase_altura of _resolver_viento: the altitude band of a phase
Banda(fase) == IF fase = "crucero" THEN "alta" ELSE "baja"

\* C21 as stated: the labels the oracle has drawn for one airport and one
\* altitude band are all the same, whichever phase of the band asked.
VientoPorBanda ==
    \A a \in Aer : \A f1, f2 \in Fases :
        (/\ Banda(f1) = Banda(f2)
         /\ vientos[<<a, f1>>] # ""
         /\ vientos[<<a, f2>>] # "") => vientos[<<a, f1>>] = vientos[<<a, f2>>]

-----------------------------------------------------------------------------
\* Two runs built with the same airport table and the same seed: both own a
\* random.Random(seed), so both read the same stream of draws, each at its
\* own position.

\* draws of the stream that are followed
MaxSorteos == 2

Corridas == {1, 2}

\* the engine of the run as _resolver_viento sees it
MotorDe(r) == [vientos |-> cacheDe[r]]

\* self.rng: the next value of the stream of run r
SiguienteSorteo(r) == flujo[consumidos[r] + 1]

InitViento ==
    /\ Arranque({EscRuido})
    /\ flujo \in [1..MaxSorteos -> Etiquetas]
    /\ consumidos = [r \in Corridas |-> 0]
    /\ cacheDe = [r \in Corridas |-> [k \in Aer \X Fases |-> ""]]
    /\ sim = SimVacia
    /\ gen = SinLlamada
    /\ pes = SinPesos

\* _resolver_viento(aer_id, fase) in run r: rng.choices is called, and takes
\* one value of the stream, only when the table has no label and the cache
\* has no entry
ResolverViento ==
    \E r \in Corridas, a \in ConRecurso, fase \in Fases :
        /\ consumidos[r] < MaxSorteos
        /\ LET sorteo == SiguienteSorteo(r)
               tras == GuardarViento(MotorDe(r), a, fase, sorteo)
           IN  /\ cacheDe' = [cacheDe EXCEPT ![r] = tras.vientos]
               /\ consumidos' = [consumidos EXCEPT ![r] =
                                    IF tras.vientos = cacheDe[r] THEN @ ELSE @ + 1]
        /\ UNCHANGED <<varsMotor, flujo, sim, gen, pes>>

\* _velocidad_objetivo in run r: rng.uniform takes one value of the stream
SortearVelocidad ==
    \E r \in Corridas :
        /\ consumidos[r] < MaxSorteos
        /\ consumidos' = [consumidos EXCEPT ![r] = @ + 1]
        /\ UNCHANGED <<varsMotor, flujo, cacheDe, sim, gen, pes>>

NextViento ==
    \/ ResolverViento
    \/ SortearVelocidad

SpecViento == InitViento /\ [][NextViento]_vars

\* C22 as stated: where the table gives no label, the label drawn for an
\* airport and a phase depends on the seed, the airport and the phase only,
\* so two runs of the same seed that have both drawn it hold the same label,
\* whatever else each run has asked or drawn before.
EtiquetaPorSemilla ==
    \A r1, r2 \in DOMAIN cacheDe : \A k \in Aer \X Fases :
        (cacheDe[r1][k] # "" /\ cacheDe[r2][k] # "") => cacheDe[r1][k] = cacheDe[r2][k]

-----------------------------------------------------------------------------
\* run() starts every flight process before env.run(), at minute 0: a flight
\* scheduled before that is in the past when its process is activated
SalidaEnElPasado(f) == Plan[f].minuto_salida < 0

\* the occupancy events and records of flights, when every flight of the plan
\* is in the past
EventosDeVuelo ==
    {i \in 1..Len(eventos) :
        eventos[i].evento \in {"ocupacion_origen", "ocupacion_origen_cap_llena", "despegue",
                               "aterrizaje", "aterrizaje_cap_llena", "salida_destino"}}

\* C23 as stated: a flight whose scheduled departure is earlier than the
\* time of its activation is rejected: it appends no record and, when the
\* plan holds no other flight, no flight has logged an occupancy event.
PasadoRechazado ==
    (EsP2 /\ Plan # <<>> /\ \A f \in Vuelos : SalidaEnElPasado(f))
        => (registros = <<>> /\ EventosDeVuelo = {})

-----------------------------------------------------------------------------
(* SimulacionPrototipo1: registrar_planes, then ejecutar(hasta) *)

\* SimulacionPrototipo1(paso_tiempo=1)
paso_tiempo == 1

FilaP1(id, o, d, salida, llegada) ==
    [Fila(id, o, d, salida, 0) EXCEPT !.minuto_llegada_programada = llegada]

\* the inputs: two airports, B of capacity capB, and three flights, the first
\* one with departure minute s1
EntradaP1(s1, capB) ==
    [EscP1 EXCEPT !.tabla = <<"A", "B">>,
                  !.nodos = <<"A", "B">>,
                  !.cap = [a \in Aer |-> IF a = "B" THEN capB ELSE 2],
                  !.plan = <<FilaP1(1, "A", "B", s1, 3), FilaP1(2, "A", "B", 0, 2),
                             FilaP1(3, "B", "A", 4, 5)>>]

EntradasP1 == {EntradaP1(s1, capB) : s1 \in {-1, 0, 1}, capB \in {1, 2}}

\* the values of "hasta" given to ejecutar
Hastas == {4, 6, 8}

\* registrar_plan: entorno.process(proceso.ejecutar()) schedules the start of
\* the process, in the order of the plans
RECURSIVE RegistrarPlanes(_, _)
RegistrarPlanes(s, f) ==
    IF f > Len(E.plan) THEN s
    ELSE RegistrarPlanes(Programar(s, Evento(0, URGENT, "init", f, "")), f + 1)

\* agregar_aeropuertos, registrar_planes, and the "until" event of ejecutar
SimInicial(hasta) ==
    Programar(
        RegistrarPlanes([SimVacia EXCEPT
                            !.hasta = hasta,
                            !.pc = [f \in 1..Len(E.plan) |-> "init"],
                            !.disp = [a \in ConRecurso |-> E.cap[a]],
                            !.colaAt = [a \in ConRecurso |-> <<>>],
                            !.concedido = [f \in 1..Len(E.plan) |-> FALSE],
                            !.cond = [f \in 1..Len(E.plan) |-> FALSE],
                            !.entrada = [f \in 1..Len(E.plan) |-> 0]], 1),
        Evento(hasta, URGENT, "hasta", 0, ""))

InitP1 ==
    /\ Arranque(EntradasP1)
    /\ flujo = <<>>
    /\ consumidos = <<>>
    /\ cacheDe = <<>>
    /\ sim \in {SimInicial(hasta) : hasta \in Hastas}
    /\ gen = SinLlamada
    /\ pes = SinPesos

TimeoutP1(s, delay, tipo, f) == Programar(s, Evento(s.now + delay, NORMAL, tipo, f, ""))

\* _atender_cola_aterrizajes: evento.succeed() schedules the landing event
RECURSIVE AtenderColaEn(_, _)
AtenderColaEn(s0, a) ==
    Sea(s0, LAMBDA s :
        IF s.colaAt[a] # <<>> /\ s.disp[a] > 0
        THEN AtenderColaEn(
                 Programar([s EXCEPT !.colaAt[a] = Tail(@), !.disp[a] = @ - 1],
                           Evento(s.now, NORMAL, "concedido", Head(s.colaAt[a]), a)), a)
        ELSE s)

\* liberar_plaza_salida of airport a
LiberarPlazaSalidaEn(s0, a) ==
    Sea(s0, LAMBDA s :
        IF s.disp[a] >= E.cap[a] THEN s
        ELSE AtenderColaEn([s EXCEPT !.disp[a] = @ + 1], a))

\* lines 149-162: the record of the completed flight
RegistrarFinal(s, f, retraso) ==
    [s EXCEPT !.pc[f] = "fin",
              !.finalizados = Append(@, [id_vuelo |-> E.plan[f].id_vuelo,
                                         minuto_salida |-> E.plan[f].minuto_salida,
                                         minuto_llegada_real |-> s.now,
                                         retraso |-> retraso])]

\* lines 140-143: wait for the landing event or for one more step
EsperarTurno(s, f) ==
    [TimeoutP1(s, paso_tiempo, "paso", f) EXCEPT !.pc[f] = "cola", !.cond[f] = FALSE]

\* lines 132-139: solicitar_aterrizaje at the destination
Llegar(s0, f) ==
    Sea(s0, LAMBDA s : Sea(E.plan[f].destino, LAMBDA d :
        IF s.disp[d] > 0
        THEN RegistrarFinal([s EXCEPT !.disp[d] = @ - 1], f, 0)
        ELSE EsperarTurno([s EXCEPT !.colaAt[d] = Append(@, f), !.entrada[f] = s.now], f)))

\* lines 124-130: one step of the cruise loop
Crucero(s0, f) ==
    Sea(s0, LAMBDA s : Sea(E.plan[f].minuto_llegada_programada, LAMBDA llegada :
        IF s.now < llegada
        THEN [TimeoutP1(s, Min(paso_tiempo, llegada - s.now), "timeout", f)
                 EXCEPT !.pc[f] = "crucero"]
        ELSE Llegar(s, f)))

\* lines 117-122: departure
Salir(s, f) == Crucero(LiberarPlazaSalidaEn(s, E.plan[f].origen), f)

\* lines 107-115: the start of ProcesoVuelo.ejecutar. The RuntimeError ends
\* the process, and simpy schedules the failed process as an event
Ejecutar(s0, f) ==
    Sea(s0, LAMBDA s :
        IF E.plan[f].minuto_salida < s.now
        THEN [Programar(s, Evento(s.now, NORMAL, "fallo", f, "")) EXCEPT !.pc[f] = "error"]
        ELSE IF E.plan[f].minuto_salida # s.now
        THEN [TimeoutP1(s, E.plan[f].minuto_salida - s.now, "timeout", f)
                 EXCEPT !.pc[f] = "espera_salida"]
        ELSE Salir(s, f))

\* the landing event or the step timeout triggers the condition the flight
\* waits for, unless it is triggered already
DispararCondicion(s, f) ==
    IF s.pc[f] = "cola" /\ ~s.cond[f]
    THEN [Programar(s, Evento(s.now, NORMAL, "cond", f, "")) EXCEPT !.cond[f] = TRUE]
    ELSE s

\* lines 144-147: the flight resumes after the condition
TrasCondicion(s, f) ==
    IF s.concedido[f] THEN RegistrarFinal(s, f, s.now - s.entrada[f])
    ELSE EsperarTurno(s, f)

\* Environment.step of the loop of ejecutar
CabezaP1 == sim.cola[1]

ExtraidoP1 == [sim EXCEPT !.now = CabezaP1.t, !.cola = Tail(@)]

Corriendo(tipo) ==
    /\ sim.fallo = ""
    /\ ~sim.parado
    /\ sim.cola # <<>>
    /\ CabezaP1.tipo = tipo

PasoP1(F(_)) ==
    /\ \E s \in {ExtraidoP1} : sim' = F(s)
    /\ UNCHANGED <<varsMotor, varsRng, gen, pes>>

IniciarProceso == Corriendo("init") /\ PasoP1(LAMBDA s : Ejecutar(s, CabezaP1.v))

FinTimeout ==
    /\ Corriendo("timeout")
    /\ PasoP1(LAMBDA s : IF s.pc[CabezaP1.v] = "espera_salida"
                         THEN Salir(s, CabezaP1.v) ELSE Crucero(s, CabezaP1.v))

FinPaso == Corriendo("paso") /\ PasoP1(LAMBDA s : DispararCondicion(s, CabezaP1.v))

AterrizajeConcedido ==
    /\ Corriendo("concedido")
    /\ PasoP1(LAMBDA s :
           DispararCondicion([s EXCEPT !.concedido[CabezaP1.v] = TRUE], CabezaP1.v))

CondicionCumplida == Corriendo("cond") /\ PasoP1(LAMBDA s : TrasCondicion(s, CabezaP1.v))

\* the failed process has no callback that takes its exception: step raises
\* it, and it leaves run and ejecutar
ProcesoFallido ==
    /\ Corriendo("fallo")
    /\ PasoP1(LAMBDA s : [s EXCEPT !.fallo = "RuntimeError"])

\* the "until" event ends run
FinHasta == Corriendo("hasta") /\ PasoP1(LAMBDA s : [s EXCEPT !.parado = TRUE])

NextP1 ==
    \/ IniciarProceso
    \/ FinTimeout
    \/ FinPaso
    \/ AterrizajeConcedido
    \/ CondicionCumplida
    \/ ProcesoFallido
    \/ FinHasta

SpecP1 == InitP1 /\ [][NextP1]_vars

Finalizado(f) ==
    \E i \in 1..Len(sim.finalizados) : sim.finalizados[i].id_vuelo = E.plan[f].id_vuelo

\* C24 as stated: the abort of a flight with a past departure does not end
\* the run: where ejecutar has ended after such an abort, every other flight
\* scheduled to land before "hasta" has completed and is recorded.
OtrosCompletan ==
    (sim.fallo # "" \/ sim.parado) =>
        \A f, g \in DOMAIN sim.pc :
            (sim.pc[f] = "error" /\ g # f /\ sim.pc[g] # "error"
             /\ E.plan[g].minuto_llegada_programada < sim.hasta) => Finalizado(g)

-----------------------------------------------------------------------------
\* C26 as stated: with B of capacity 1 and three flights A->B of equal
\* distance leaving at minutes 0, 1 and 2, the record of the second and of the
\* third flight has a strictly positive tiempo_espera_cola_min.
EsperaPositivaEnCuello ==
    E = EscCuello =>
        \A i \in 1..Len(registros) :
            registros[i].id_vuelo \in {2, 3} => registros[i].tiempo_espera_cola_min > 0


\* two flights of the plan on the same route with the same planned distance
MismaRuta(f, g) ==
    /\ Plan[f].origen = Plan[g].origen
    /\ Plan[f].destino = Plan[g].destino
    /\ Plan[f].distancia_km = Plan[g].distancia_km

\* the flights of the plan that record i belongs to
RegistroVuelo(i) == {f \in Vuelos : Plan[f].id_vuelo = registros[i].id_vuelo}

\* C27 as stated: flights on the same route with the same planned distance
\* are granted the slot of their destination, and are recorded as landed, in
\* the order of their scheduled departures.
OrdenDeSalida ==
    EsP2 =>
        /\ \A i, j \in 1..Len(registros) :
              (/\ i < j
               /\ ~registros[i].redirigido /\ ~registros[j].redirigido
               /\ \E f \in RegistroVuelo(i), g \in RegistroVuelo(j) : MismaRuta(f, g))
                  => registros[i].salida_programada <= registros[j].salida_programada
        /\ \A a \in ConRecurso : \A i, j \in 1..Len(concedidos[a]) :
              (/\ i < j
               /\ Plan[concedidos[a][i]].destino = a
               /\ ~vuelos[concedidos[a][i]].redirigido /\ ~vuelos[concedidos[a][j]].redirigido
               /\ MismaRuta(concedidos[a][i], concedidos[a][j]))
                  => Plan[concedidos[a][i]].minuto_salida <= Plan[concedidos[a][j]].minuto_salida


\* the capacity column of every airport is at least the number of flights
CapacidadAmplia == \A a \in ConRecurso : E.cap[a] >= Len(Plan)

\* C28: when every airport has at least as many slots as the plan has
\* flights, no flight waits for its destination: every record has
\* tiempo_espera_cola_min = 0 and no flight in the air has waited, whatever
\* the initial occupancy and the noise pulses.
SinEsperaConCapacidad ==
    (EsP2 /\ CapacidadAmplia) =>
        /\ \A i \in 1..Len(registros) : registros[i].tiempo_espera_cola_min = 0
        /\ \A f \in Vuelos : vuelos[f].espera_cola = 0
        /\ \A a \in ConRecurso : \A i \in 1..Len(colaRec[a]) :
              vuelos[colaRec[a][i]].pc # "req_destino"

\* two flights hold slots of their common destination at once, at an airport
\* that started occupied: neither has waited
DosALaVez ==
    /\ EsP2 /\ CapacidadAmplia
    /\ \E a \in ConRecurso :
          /\ \E f, g \in usuarios[a] : f # g /\ Plan[f].destino = a /\ Plan[g].destino = a
          /\ \E i \in 1..Len(eventos) :
                eventos[i].aeropuerto = a /\ eventos[i].evento = "ocupacion_inicial"

-----------------------------------------------------------------------------
\* PlanDeVueloBase.__post_init__ raises for the row, or the row names an
\* airport the table does not have
FilaRechazable(f) ==
    \/ Plan[f].origen = Plan[f].destino
    \/ Plan[f].minuto_salida >= Plan[f].minuto_llegada_programada
    \/ Plan[f].origen \notin ConRecurso
    \/ Plan[f].destino \notin ConRecurso \cup {EXTERIOR}

\* C25 as stated: a plan with a row of this kind is rejected when the plan is
\* taken in: the clock has not moved, the process of the row has not
\* started, and the row has no record.
FilaInvalidaRechazada ==
    EsP2 => \A f \in Vuelos :
                FilaRechazable(f) =>
                    /\ now = 0
                    /\ vuelos[f].pc = "nuevo"
                    /\ RegistroDe(f) = {}

-----------------------------------------------------------------------------
(* generar_plan_diario *)

\* the largest total_vuelos_diarios that is followed
MaxVuelosPlan == 2

\* ConfigVuelos
hora_inicio == 6
hora_fin == 22
dist_exterior_km == 1800
\* prob_destino_exterior = 0.05, in hundredths
prob_destino_exterior == 5

inicio_min == hora_inicio * 60
fin_min == hora_fin * 60

AristaPlan(u, v, w, km) == [u |-> u, v |-> v, w_ij |-> w, dist_km |-> km]

\* input graphs, as the sequence of grafo.edges(data=True): a line of three
\* airports, the same with an edge of weight zero, and the loop edge that
\* _anadir_pesos adds for a flow whose origin is its destination
GrafoLinea == <<AristaPlan("A", "B", 3, 100), AristaPlan("B", "C", 1, 60)>>
GrafoPesoNulo == <<AristaPlan("A", "B", 0, 100), AristaPlan("B", "C", 1, 60)>>
GrafoLazo == <<AristaPlan("A", "A", 1, 0)>>
\* a graph without edges, and one whose only edge has weight zero
GrafoVacio == <<>>
GrafoSinPeso == <<AristaPlan("A", "B", 0, 100)>>

Grafos == {GrafoLinea, GrafoPesoNulo, GrafoLazo, GrafoVacio, GrafoSinPeso}

\* the values of velocidad_crucero_kmh
Velocidades == {0, velocidad_crucero_kmh}

\* _resolver_pesos_rutas without pesos_manual: the edges of positive weight
AristasConPeso(g) == SelectSeq(g, LAMBDA e : e.w_ij > 0)

\* _trafico_por_nodo: traf[n]
RECURSIVE TraficoPorNodo(_, _)
TraficoPorNodo(g, n) ==
    IF g = <<>> THEN 0
    ELSE Sea(Head(g), LAMBDA e :
             (IF e.u = n THEN Max(0, e.w_ij) ELSE 0) + (IF e.v = n THEN Max(0, e.w_ij) ELSE 0)
             + TraficoPorNodo(Tail(g), n))

TraficoMaximo(g) ==
    Sea({TraficoPorNodo(g, e.u) : e \in RangoSeq(g)} \cup {TraficoPorNodo(g, e.v) : e \in RangoSeq(g)},
        LAMBDA ts : CHOOSE t \in ts : \A o \in ts : o <= t)

\* lines 163-166: the outcomes of "rng.random() < p_ext" for a flight that
\* leaves from origen; p is p_ext * traf_max, in hundredths
SorteosExterior(g, origen) ==
    Sea(prob_destino_exterior * TraficoPorNodo(g, origen), LAMBDA p :
        {b \in BOOLEAN : IF b THEN p > 0 ELSE (p = 0 \/ p < 100 * TraficoMaximo(g))})

\* np_rng.multinomial(total, pesos) over k routes: the counts a draw can give
RECURSIVE SumaCuentas(_, _)
SumaCuentas(c, k) == IF k = 0 THEN 0 ELSE c[k] + SumaCuentas(c, k - 1)

Repartos(total, k) == {c \in [1..k -> 0..total] : SumaCuentas(c, k) = total}

\* one iteration of _generar_minutos_salida: rng.randint gives a minute of the
\* window, int(rng.normalvariate(mu, desv)) any minute around a peak hour
p_ventanas == {8, 18}

SorteosUniforme == {inicio_min, fin_min - 1}

SorteosNormal == {inicio_min - 1, fin_min} \cup {h * 60 : h \in p_ventanas}

Recortar(minuto) == Min(Max(minuto, inicio_min), fin_min - 1)

MinutosDeSalida(concentrar) ==
    IF ~concentrar THEN SorteosUniforme
    ELSE {Recortar(m) : m \in SorteosNormal \cup SorteosUniforme}

\* the route of the k-th flight of the loop over zip(aristas, vuelos_por_ruta)
RutaDe(c, k) == CHOOSE i \in DOMAIN c : SumaCuentas(c, i - 1) < k /\ k <= SumaCuentas(c, i)

\* lines 152-181: the row of one flight
FilaPlan(e, idx, salida, directo, exterior, vel) ==
    LET origen == IF directo THEN e.u ELSE e.v
        destino == IF directo THEN e.v ELSE e.u
        destino_plan == IF exterior THEN EXTERIOR ELSE destino
        dist_flight == IF exterior THEN dist_exterior_km ELSE e.dist_km
    IN  [id_vuelo |-> <<origen, destino_plan, idx>>,
         origen |-> origen,
         destino |-> destino_plan,
         es_exterior |-> exterior,
         minuto_salida |-> salida,
         duracion_minutos |-> DuracionMinutos(dist_flight, vel),
         minuto_llegada_programada |-> salida + DuracionMinutos(dist_flight, vel),
         distancia_km |-> dist_flight]

\* df.sort_values(by="minuto_salida"): the orders the sort can return
Ordenaciones(plan) ==
    {[i \in 1..Len(plan) |-> plan[p[i]]] :
        p \in {q \in [1..Len(plan) -> 1..Len(plan)] :
                 /\ \A i, j \in 1..Len(plan) : i # j => q[i] # q[j]
                 /\ \A i, j \in 1..Len(plan) :
                       i < j => plan[q[i]].minuto_salida <= plan[q[j]].minuto_salida}}

InitPlan ==
    /\ Arranque({EscP1})
    /\ flujo = <<>>
    /\ consumidos = <<>>
    /\ cacheDe = <<>>
    /\ sim = SimVacia
    /\ gen \in {[SinLlamada EXCEPT !.pc = "inicio",
                                   !.grafo = g,
                                   !.total_vuelos_diarios = n,
                                   !.concentracion_horas_punta = c,
                                   !.velocidad_crucero_kmh = v] :
                   g \in Grafos, n \in 0..MaxVuelosPlan, c \in BOOLEAN, v \in Velocidades}
    /\ pes = SinPesos

\* lines 136-139: the routes and the flights of each
AsignarVuelosPorRuta ==
    /\ gen.pc = "inicio"
    /\ \E k \in {Len(AristasConPeso(gen.grafo))} :
          IF k = 0
          THEN gen' = [gen EXCEPT !.pc = "fin", !.error = "ValueError"]
          ELSE \E c \in Repartos(gen.total_vuelos_diarios, k) :
                  gen' = [gen EXCEPT !.pc = "bucle", !.vuelos_por_ruta = c]
    /\ UNCHANGED <<varsMotor, varsRng, sim, pes>>

\* lines 141-147: one departure minute more
GenerarMinutoSalida ==
    /\ gen.pc = "bucle"
    /\ Len(gen.horarios) < gen.total_vuelos_diarios
    /\ \E m \in MinutosDeSalida(gen.concentracion_horas_punta) :
          gen' = [gen EXCEPT !.horarios = Append(@, m)]
    /\ UNCHANGED <<varsMotor, varsRng, sim, pes>>

\* lines 149-190: one flight more of the loop over the routes
AgregarFila ==
    /\ gen.pc = "bucle"
    /\ Len(gen.horarios) = gen.total_vuelos_diarios
    /\ Len(gen.plan) < gen.total_vuelos_diarios
    /\ \E idx \in {Len(gen.plan) + 1} :
       \E e \in {AristasConPeso(gen.grafo)[RutaDe(gen.vuelos_por_ruta, idx)]} :
       \E directo \in BOOLEAN :
       \E exterior \in SorteosExterior(gen.grafo, IF directo THEN e.u ELSE e.v) :
          gen' = [gen EXCEPT !.plan = Append(@, FilaPlan(e, idx, gen.horarios[idx], directo,
                                                         exterior, gen.velocidad_crucero_kmh))]
    /\ UNCHANGED <<varsMotor, varsRng, sim, pes>>

\* lines 192-194: the DataFrame of the rows, sorted by departure. A DataFrame
\* of no rows has no column, and sort_values raises KeyError
OrdenarPlan ==
    /\ gen.pc = "bucle"
    /\ Len(gen.horarios) = gen.total_vuelos_diarios
    /\ Len(gen.plan) = gen.total_vuelos_diarios
    /\ IF gen.plan = <<>>
       THEN gen' = [gen EXCEPT !.pc = "fin", !.error = "KeyError"]
       ELSE \E df \in Ordenaciones(gen.plan) : gen' = [gen EXCEPT !.pc = "fin", !.df = df]
    /\ UNCHANGED <<varsMotor, varsRng, sim, pes>>

NextPlan ==
    \/ AsignarVuelosPorRuta
    \/ GenerarMinutoSalida
    \/ AgregarFila
    \/ OrdenarPlan

SpecPlan == InitPlan /\ [][NextPlan]_vars

\* C29 as stated: for a graph with an edge of positive weight and any total
\* N >= 0, the call returns a plan of exactly N rows, each with its departure
\* minute in [hora_inicio * 60, hora_fin * 60).
PlanDeNFilas ==
    (gen.pc = "fin" /\ AristasConPeso(gen.grafo) # <<>>) =>
        /\ gen.error = ""
        /\ Len(gen.df) = gen.total_vuelos_diarios
        /\ \A i \in 1..Len(gen.df) :
              inicio_min <= gen.df[i].minuto_salida /\ gen.df[i].minuto_salida < fin_min

FilaCorrecta(fila) ==
    /\ fila.origen # fila.destino
    /\ fila.minuto_llegada_programada = fila.minuto_salida + fila.duracion_minutos
    /\ fila.duracion_minutos >= 1

\* C30 as stated: every row the generator emits has an origin that differs
\* from its destination, a duration of at least one minute and an arrival
\* equal to departure plus duration, so after the departure.
FilasCorrectas ==
    /\ \A i \in 1..Len(gen.plan) : FilaCorrecta(gen.plan[i])
    /\ \A i \in 1..Len(gen.df) : FilaCorrecta(gen.df[i])


\* C31 as stated: for a graph that is empty or has no edge of positive
\* weight, the call of the plan generator ends without an exception and
\* returns the N flights it allocated.
SinPesoSinExcepcion ==
    (gen.pc = "fin" /\ AristasConPeso(gen.grafo) = <<>>) =>
        /\ gen.error = ""
        /\ Len(gen.df) = gen.total_vuelos_diarios

-----------------------------------------------------------------------------
\* preparar_grafo: _anadir_pesos on the graph of construir_grafo, which has
\* the airports as nodes and no edge

MaxFlujos == 2

\* a row of the flows table
FilaFlujo(u, v, p) == [origen_id |-> u, destino_id |-> v, pasajeros_anuales |-> p]

\* "X" is an airport of the flows that has no position
FilasFlujo == {FilaFlujo(u, v, p) : u \in {"A", "B"}, v \in {"A", "B", "X"}, p \in 0..2}

TablasFlujos == UNION {[1..n -> FilasFlujo] : n \in 0..MaxFlujos}

\* list(posiciones.keys())
TablasPosiciones == {<<>>, <<"A">>, <<"A", "B">>, <<"A", "B", "C">>}

\* a float quotient, kept as numerator and divisor
Cociente(a, b) == <<a, b>>

MasCociente(x, y) == <<x[1] * y[2] + y[1] * x[2], x[2] * y[2]>>

EsUno(x) == x[2] # 0 /\ x[1] = x[2]

EsPositivo(x) == x # <<>> /\ x[1] * x[2] > 0

AristaPeso(u, v, p) == [u |-> u, v |-> v, pasajeros_anuales |-> p, w_ij |-> <<>>]

\* grafo.has_edge(u, v) of an undirected graph
TieneArista(g, u, v) == \E i \in 1..Len(g) : {g[i].u, g[i].v} = {u, v}

\* the bug of replacing the passengers of an edge instead of adding to them
AcumularSobrescribe(g, u, v, p) ==
    IF TieneArista(g, u, v)
    THEN [i \in 1..Len(g) |->
             IF {g[i].u, g[i].v} = {u, v} THEN [g[i] EXCEPT !.pasajeros_anuales = p] ELSE g[i]]
    ELSE Append(g, AristaPeso(u, v, p))

\* lines 80-83: the passengers of a row go to its undirected edge
AcumularPasajeros(g, u, v, p) ==
    IF TieneArista(g, u, v)
    THEN [i \in 1..Len(g) |->
             IF {g[i].u, g[i].v} = {u, v} THEN [g[i] EXCEPT !.pasajeros_anuales = @ + p] ELSE g[i]]
    ELSE Append(g, AristaPeso(u, v, p))

\* lines 87-91: the complete graph over ids, one passenger on every edge
RECURSIVE GrafoCompleto(_)
GrafoCompleto(ids) ==
    IF Len(ids) < 2 THEN <<>>
    ELSE [k \in 1..(Len(ids) - 1) |-> AristaPeso(ids[1], ids[k + 1], 1)] \o GrafoCompleto(Tail(ids))

\* lines 93-95: w_ij of every edge
ConPesos(g, total) ==
    [i \in 1..Len(g) |-> [g[i] EXCEPT !.w_ij = Cociente(g[i].pasajeros_anuales, total)]]

\* the sum of w_ij over the edges of positive weight
RECURSIVE SumaPesos(_)
SumaPesos(g) ==
    IF g = <<>> THEN Cociente(0, 1)
    ELSE IF EsPositivo(Head(g).w_ij) THEN MasCociente(Head(g).w_ij, SumaPesos(Tail(g)))
    ELSE SumaPesos(Tail(g))

InitPesos ==
    /\ Arranque({EscP1})
    /\ flujo = <<>>
    /\ consumidos = <<>>
    /\ cacheDe = <<>>
    /\ sim = SimVacia
    /\ gen = SinLlamada
    /\ pes \in {[SinPesos EXCEPT !.pc = "flujos", !.flujos = t, !.posiciones = ids,
                                 !.pax_por_aer = [n \in RangoSeq(ids) |-> 0]] :
                   t \in TablasFlujos, ids \in TablasPosiciones}

\* lines 70-84: one row of the flows
AcumularFlujo ==
    /\ pes.pc = "flujos"
    /\ pes.fila <= Len(pes.flujos)
    /\ \E r \in {pes.flujos[pes.fila]} :
          IF \/ r.pasajeros_anuales <= 0
             \/ r.origen_id \notin RangoSeq(pes.posiciones)
             \/ r.destino_id \notin RangoSeq(pes.posiciones)
          THEN pes' = [pes EXCEPT !.fila = @ + 1]
          ELSE pes' = [pes EXCEPT
                          !.fila = @ + 1,
                          !.pax_por_aer =
                              [n \in DOMAIN @ |->
                                  @[n] + (IF n = r.origen_id THEN r.pasajeros_anuales ELSE 0)
                                       + (IF n = r.destino_id THEN r.pasajeros_anuales ELSE 0)],
                          !.grafo = AcumularPasajeros(@, r.origen_id, r.destino_id,
                                                      r.pasajeros_anuales),
                          !.total = @ + r.pasajeros_anuales]
    /\ UNCHANGED <<varsMotor, varsRng, sim, gen>>

\* lines 85-96: the fallback when no flow was added, and the weights
NormalizarPesos ==
    /\ pes.pc = "flujos"
    /\ pes.fila > Len(pes.flujos)
    /\ \E g \in {IF pes.total <= 0 THEN GrafoCompleto(pes.posiciones) ELSE pes.grafo} :
       \E total \in {IF pes.total <= 0 THEN Len(g) ELSE pes.total} :
          pes' = [pes EXCEPT !.pc = "fin", !.grafo = ConPesos(g, total), !.total = total]
    /\ UNCHANGED <<varsMotor, varsRng, sim, gen>>

NextPesos ==
    \/ AcumularFlujo
    \/ NormalizarPesos

SpecPesos == InitPesos /\ [][NextPesos]_vars

\* C32 as stated: after graph construction the weights w_ij of the edges of
\* positive weight sum to 1, in the normal path and in the fallback.
PesosSumanUno == pes.pc = "fin" => EsUno(SumaPesos(pes.grafo))

\* C32, amended: when the constructed graph has at least one edge, the divisor
\* is positive, it equals the passengers accumulated on the undirected edges,
\* and the weights of the edges of positive weight sum to 1.
PesosSumanUnoConAristas ==
    (pes.pc = "fin" /\ pes.grafo # <<>>) =>
        /\ pes.total > 0
        /\ EsUno(SumaPesos(pes.grafo))

\* two rows of opposite directions were added to one edge, and the weights
\* were computed
FlujosDeAmbosSentidos ==
    /\ pes.pc = "fin"
    /\ Len(pes.grafo) = 1
    /\ pes.grafo[1].u # pes.grafo[1].v
    /\ \E i, j \in 1..Len(pes.flujos) :
          /\ pes.flujos[i].origen_id = pes.flujos[j].destino_id
          /\ pes.flujos[i].destino_id = pes.flujos[j].origen_id
          /\ pes.flujos[i].pasajeros_anuales > 0
          /\ pes.flujos[j].pasajeros_anuales > 0
          /\ pes.grafo[1].pasajeros_anuales =
                pes.flujos[i].pasajeros_anuales + pes.flujos[j].pasajeros_anuales

-----------------------------------------------------------------------------
\* a flight with a destination resource that is past _esperar_separacion_ruta:
\* espera_ini holds env.now of the instant it left the step
PasoSeparacionRuta(f) ==
    /\ vuelos[f].pc \in {"req_destino", "pista_destino", "aterrizaje", "fin"}
    /\ ~EsExterior(f)
    /\ vuelos[f].destino_final \in ConRecurso

\* C33 as stated: two uses of the same unordered route {u, v} by different
\* flights are at least separar_minutos of virtual time apart.
SeparacionRuta ==
    \A f \in Vuelos : \A g \in Vuelos :
        (/\ f # g
         /\ PasoSeparacionRuta(f)
         /\ PasoSeparacionRuta(g)
         /\ ClaveRuta(Plan[f].origen, vuelos[f].destino_final)
               = ClaveRuta(Plan[g].origen, vuelos[g].destino_final)
         /\ vuelos[f].espera_ini <= vuelos[g].espera_ini)
            => vuelos[g].espera_ini - vuelos[f].espera_ini >= SepCm

-----------------------------------------------------------------------------
\* the positions of _proceso_vuelo after the "with" block of the origin
Despegados == {"crucero", "aprox", "sep_ruta", "req_destino", "pista_destino", "aterrizaje", "fin"}

\* flight f has completed its runway wait at its origin at time t
UsoPistaOrigen(f, t) ==
    \E i \in 1..Len(usosPista) :
        /\ usosPista[i].vuelo = f
        /\ usosPista[i].aeropuerto = Plan[f].origen
        /\ usosPista[i].t = t

DespeguesEn(a) == {j \in 1..Len(eventos) : eventos[j].aeropuerto = a /\ eventos[j].evento = "despegue"}

\* C34 as stated: once its runway wait at the origin is complete a flight
\* holds no origin slot during the takeoff phase, and the takeoff event of
\* its airport carries the time of the runway use.
SalidaAlUsarPista ==
    EsP2 => \A f \in Vuelos :
        vuelos[f].pc = "despegue" =>
            /\ f \notin usuarios[Plan[f].origen]
            /\ \E j \in DespeguesEn(Plan[f].origen) : UsoPistaOrigen(f, eventos[j].minuto)

\* C34, amended: the origin slot is held during taxi, runway wait and takeoff
\* phase and is released when the takeoff phase ends; the takeoff event is
\* emitted at that moment, one per flight that has taken off, at least
\* tmin_fase_despegue_min after the flight's runway use.
SalidaTrasDespegue ==
    EsP2 =>
        /\ \A f \in Vuelos :
              /\ vuelos[f].pc \in {"rodaje", "pista_origen", "despegue"}
                    => f \in usuarios[Plan[f].origen]
              /\ vuelos[f].pc \in {"crucero", "aprox", "sep_ruta"}
                    => f \notin usuarios[Plan[f].origen]
              /\ vuelos[f].pc \in Despegados =>
                    \E j \in DespeguesEn(Plan[f].origen) : \E i \in 1..Len(usosPista) :
                        /\ UsoPistaOrigen(f, usosPista[i].t)
                        /\ eventos[j].minuto >= usosPista[i].t + Cm(tmin_fase_despegue_min)
        /\ \A a \in ConRecurso :
              Cardinality(DespeguesEn(a))
                 = Cardinality({f \in Vuelos : Plan[f].origen = a /\ vuelos[f].pc \in Despegados})

\* one flight is in its takeoff phase, holding the origin slot, after another
\* flight of the same origin has taken off
DespegueConSlot ==
    /\ EsP2
    /\ \E f \in Vuelos : \E g \in Vuelos :
          /\ vuelos[f].pc = "despegue"
          /\ f \in usuarios[Plan[f].origen]
          /\ vuelos[g].pc = "crucero"
          /\ Plan[g].origen = Plan[f].origen
          /\ DespeguesEn(Plan[f].origen) # {}


EsAterrizaje(e) == e.evento \in {"aterrizaje", "aterrizaje_cap_llena"}

\* C35 as stated: a flight in its landing phase has already emitted its
\* landing event, at the time its runway wait at the destination completed,
\* and every depart-destination event comes at least the landing phase time
\* after the landing event it closes.
AterrizajeAlUsarPista ==
    EsP2 =>
        /\ \A f \in Vuelos :
              vuelos[f].pc = "aterrizaje" =>
                  \E j \in 1..Len(eventos) : \E i \in 1..Len(usosPista) :
                      /\ EsAterrizaje(eventos[j])
                      /\ eventos[j].aeropuerto = vuelos[f].destino_final
                      /\ usosPista[i].vuelo = f
                      /\ usosPista[i].aeropuerto = vuelos[f].destino_final
                      /\ eventos[j].minuto = usosPista[i].t
        /\ \A j \in 2..Len(eventos) :
              (eventos[j].evento = "salida_destino" /\ EsAterrizaje(eventos[j - 1]))
                  => eventos[j].minuto - eventos[j - 1].minuto >= Cm(tmin_fase_aterrizaje_min)


\* the airport resources where flight f holds a slot or waits for one
RecursosDe(f) == {a \in ConRecurso : f \in usuarios[a] \/ f \in RangoSeq(colaRec[a])}

\* C36: a flight is never user or requester of two airport resources at once:
\* from its destination request on it holds no slot of another airport, and
\* a flight that waits in a queue holds no slot at all.
SinRetenerYEsperar ==
    EsP2 => \A f \in Vuelos :
        /\ Cardinality(RecursosDe(f)) <= 1
        /\ vuelos[f].pc \in {"req_destino", "pista_destino", "aterrizaje"}
              => RecursosDe(f) \subseteq {vuelos[f].destino_final}
        /\ \A a \in ConRecurso :
              f \in RangoSeq(colaRec[a]) => \A b \in ConRecurso : f \notin usuarios[b]

\* a flight waits in the queue of its destination after its takeoff, and
\* holds no slot of its origin
EsperaSinSlotDeOrigen ==
    /\ EsP2
    /\ \E f \in Vuelos :
          /\ vuelos[f].pc = "req_destino"
          /\ f \in RangoSeq(colaRec[vuelos[f].destino_final])
          /\ f \notin usuarios[Plan[f].origen]
          /\ Plan[f].origen # vuelos[f].destino_final
          /\ DespeguesEn(Plan[f].origen) # {}


\* the flights whose coroutine is inside a "with" block of the resource of a
EnBloqueDe(a) ==
    {f \in Vuelos :
        \/ Plan[f].origen = a /\ vuelos[f].pc \in {"req_origen", "rodaje", "pista_origen", "despegue"}
        \/ vuelos[f].destino_final = a
              /\ vuelos[f].pc \in {"req_destino", "pista_destino", "aterrizaje"}}

AbrePar(e, cierre) ==
    \/ cierre = "despegue" /\ e.evento \in {"ocupacion_origen", "ocupacion_origen_cap_llena"}
    \/ cierre = "salida_destino" /\ EsAterrizaje(e)

\* events i < k of one airport with no event of that airport between them
Seguidos(i, k) ==
    /\ i < k
    /\ eventos[i].aeropuerto = eventos[k].aeropuerto
    /\ \A j \in (i + 1)..(k - 1) : eventos[j].aeropuerto # eventos[i].aeropuerto

\* C38 as stated: when the +1 event of a pair (taxi-begin, landing) is
\* followed by its -1 event (takeoff, depart-destination) with no other event
\* of the airport in between, the logged occupancy after the pair equals the
\* logged occupancy before it, whatever that was.
ParesEquilibrados ==
    EsP2 => \A p \in 1..Len(eventos) : \A i \in 1..Len(eventos) : \A k \in 1..Len(eventos) :
        (/\ Seguidos(p, i)
         /\ Seguidos(i, k)
         /\ eventos[k].evento \in {"despegue", "salida_destino"}
         /\ AbrePar(eventos[i], eventos[k].evento))
            => eventos[k].ocupacion = eventos[p].ocupacion


UsoPistaEn(f, a) ==
    \E i \in 1..Len(usosPista) : usosPista[i].vuelo = f /\ usosPista[i].aeropuerto = a

EventosEn(a, nombres) ==
    {j \in 1..Len(eventos) : eventos[j].aeropuerto = a /\ eventos[j].evento \in nombres}

\* C39: a diverted flight has made no request at its scheduled destination,
\* holds no slot and waits in no queue there, and has used no runway there;
\* its request, its runway wait and its landing are at the new destination,
\* and every airport logs as many landing and depart-destination events as
\* flights have landed there as their final destination.
DesvioSinTocarDestino ==
    EsP2 =>
        /\ \A f \in Vuelos :
              vuelos[f].redirigido =>
                  /\ vuelos[f].destino_final # Plan[f].destino
                  /\ f \notin RangoSeq(pedidos[Plan[f].destino])
                  /\ f \notin usuarios[Plan[f].destino]
                  /\ f \notin RangoSeq(colaRec[Plan[f].destino])
                  /\ ~UsoPistaEn(f, Plan[f].destino)
                  /\ vuelos[f].pc \in {"req_destino", "pista_destino", "aterrizaje", "fin"}
                        => f \in RangoSeq(pedidos[vuelos[f].destino_final])
                  /\ vuelos[f].pc \in {"aterrizaje", "fin"}
                        => UsoPistaEn(f, vuelos[f].destino_final)
        /\ \A a \in ConRecurso :
              /\ Cardinality(EventosEn(a, {"aterrizaje", "aterrizaje_cap_llena"}))
                    = Cardinality({f \in Vuelos : /\ vuelos[f].pc = "fin"
                                                  /\ vuelos[f].destino_final = a})
              /\ Cardinality(EventosEn(a, {"salida_destino"}))
                    = Cardinality({f \in Vuelos : /\ vuelos[f].pc = "fin"
                                                  /\ vuelos[f].destino_final = a})

\* a diverted flight has landed at its new destination, which logged the
\* landing, and the requests at its scheduled destination are of others
DesviadoAterrizado ==
    /\ EsP2
    /\ \E f \in Vuelos :
          /\ vuelos[f].redirigido
          /\ vuelos[f].pc = "fin"
          /\ UsoPistaEn(f, vuelos[f].destino_final)
          /\ EventosEn(vuelos[f].destino_final, {"aterrizaje", "aterrizaje_cap_llena"}) # {}
          /\ pedidos[Plan[f].destino] # <<>>
          /\ f \notin RangoSeq(pedidos[Plan[f].destino])


\* C40: in the prototipo 1 airport, whenever the landing queue is not empty
\* capacidad_disponible is 0; and in a step that grants a slot while flights
\* are queued, the flights granted are the first of the queue, in its order,
\* never the flight that has just arrived.
ColaSoloSinPlazas ==
    /\ [](E.prototipo = 1 => (colaAt # <<>> => disp = 0))
    /\ [][(E.prototipo = 1 /\ colaAt # <<>> /\ atendidos' # atendidos) =>
             \E k \in 1..Len(colaAt) :
                 /\ atendidos' = atendidos \o SubSeq(colaAt, 1, k)
                 /\ colaAt' = SubSeq(colaAt, k + 1, Len(colaAt))]_vars

\* after more grants than the airport has slots, so after a release, a
\* flight is queued and no slot is available
ColaTrasLiberar ==
    /\ E.prototipo = 1
    /\ colaAt # <<>>
    /\ Len(atendidos) > capacidad_total
    /\ disp = 0

=============================================================================
